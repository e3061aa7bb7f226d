---------------------------- MODULE SingboxConfig ---------------------------
(***************************************************************************)
(* The sing-box configuration an entry node renders from its placements:   *)
(* internal/wire/singboxgen, and the parts of internal/app/executor        *)
(* EntryActions that feed it.                                              *)
(*                                                                         *)
(* Of a configuration file only what the agent puts there is kept: the     *)
(* users of the VLESS inbound, the per-user outbounds ("b-<client>-        *)
(* <backend>"), the rules that send a user to one of them, and the         *)
(* per-user selectors ("u-<client>") with the rules that name them.        *)
(* Rendering is deterministic, so comparing hashes compares these.         *)
(***************************************************************************)
EXTENDS PlacementStore, Sequences, FiniteSetsExt

CONSTANT
    EmptyFile       \* a configuration file with nothing in it

ASSUME OrderAssumption == Placements \subseteq Nat /\ Backends \subseteq Nat

SelectorType == [options: SUBSET Backends, default: Backends]

ConfigType ==
    [users: SUBSET Clients, outs: SUBSET (Clients \X Backends),
     rules: SUBSET (Clients \X Backends),
     selectors: UNION {[us -> SelectorType] : us \in SUBSET Clients}]

ASSUME EmptyFileAssumption == EmptyFile \notin ConfigType

(* The base file an operator provisions: an inbound without users, the     *)
(* direct and block outbounds, no rules.                                   *)
Template == [users |-> {}, outs |-> {}, rules |-> {}, selectors |-> <<>>]

-----------------------------------------------------------------------------
(* The placements a configuration is rendered from: what counts of each of *)
(* them, and whether it was listed, in the order of the keys in the table, *)
(* or added behind the listed ones, in the order of a Go map.              *)

Entry(row, place) ==
    [desired |-> row.desired, client |-> row.client, backend |-> row.backend, place |-> place]

EntryType ==
    [desired: DesiredState, client: Clients, backend: Backends, place: {"listed", "added"}]

Listing == [p \in ListPlacements |-> Entry(store[p], "listed")]

(* applyPlacementOverlay for one overlay after another, at most one per    *)
(* placement: it replaces the listed row, or comes last.                   *)
ApplyPlacementOverlay(list, overlays) ==
    [p \in DOMAIN list \cup {c.pid : c \in overlays} |->
        IF \E c \in overlays : c.pid = p
        THEN Entry(CHOOSE c \in overlays : c.pid = p,
                   IF p \in DOMAIN list THEN "listed" ELSE "added")
        ELSE list[p]]

-----------------------------------------------------------------------------
(* Build and MergeBase.  All of them look at the desired state and none at *)
(* the revocation flag or at Applied.                                      *)

Active(list) == {p \in DOMAIN list : list[p].desired = "active"}

CollectActiveUsers(list) == {list[p].client : p \in Active(list)}

(* The active placements whose backend is known: all of them, once the     *)
(* list validates.                                                         *)
Served(list, known) == {p \in Active(list) : list[p].backend \in known}

Pairs(list, known) == {<<list[p].client, list[p].backend>> : p \in Served(list, known)}

(* validate: one active placement on an unknown backend fails the whole    *)
(* rendering.                                                              *)
Validate(list, known) == \A p \in Active(list) : list[p].backend \in known

(* The placements of ps that may come last.                                *)
MayBeLast(list, ps) ==
    {p \in ps : list[p].place = "added" \/ \A q \in ps : list[q].place = "listed" /\ q <= p}

(* The last placement of a user decides its selector's default.            *)
DesiredBackends(list, known, u) ==
    {list[p].backend : p \in MayBeLast(list, {p \in Served(list, known) : list[p].client = u})}

(* buildRoute: the users with a rule, which names their selector.          *)
RoutedUsers(list, known) == {list[p].client : p \in Served(list, known)}

(* buildOutbounds: every user may leave through every backend, by way of a *)
(* selector.                                                               *)
BuildSelectors(list, known) ==
    {ss \in [RoutedUsers(list, known) -> [options: {known}, default: known]] :
        \A u \in DOMAIN ss : ss[u].default \in DesiredBackends(list, known, u)}

(* The configurations that Build may return, depending on the order.       *)
Build(list, known) ==
    {[users |-> CollectActiveUsers(list), outs |-> RoutedUsers(list, known) \X known,
      rules |-> {}, selectors |-> ss] : ss \in BuildSelectors(list, known)}

(* Faulty variant: the users of the base are kept.                         *)
MergeIntoInbounds(base, list) == base.users \cup CollectActiveUsers(list)

(* mergeInbounds: the users are replaced, unless none is left.             *)
MergeInbounds(base, list) ==
    IF Active(list) = {} THEN base.users ELSE CollectActiveUsers(list)

(* mergeOutbounds and mergeRoute: the "b-" outbounds and the rules for     *)
(* them are replaced, everything else is kept.                             *)
MergeOutbounds(list, known) == Pairs(list, known)

MergeRoute(list, known) == Pairs(list, known)

MergeBase(base, list, known) ==
    [users |-> MergeInbounds(base, list), outs |-> MergeOutbounds(list, known),
     rules |-> MergeRoute(list, known), selectors |-> base.selectors]

(* renderFromState, for a list that validates.                             *)
RenderFromState(base, list, known) ==
    IF base = EmptyFile THEN Build(list, known) ELSE {MergeBase(base, list, known)}

-----------------------------------------------------------------------------
(* What sing-box makes of a configuration.                                 *)

(* It refuses one in which a rule or a selector names an outbound that is  *)
(* not defined.                                                            *)
Loads(cfg) ==
    /\ cfg # EmptyFile
    /\ cfg.rules \subseteq cfg.outs
    /\ \A u \in DOMAIN cfg.selectors : {u} \X cfg.selectors[u].options \subseteq cfg.outs

Defaults(cfg) == [u \in DOMAIN cfg.selectors |-> cfg.selectors[u].default]

(* The backend user u leaves through (at most one), given the choices made *)
(* in the selectors.  The first rule that matches wins: the "b-" rules     *)
(* come first, sorted by backend.                                          *)
Egress(cfg, chosen, u) ==
    LET ruled == {b \in Backends : <<u, b>> \in cfg.rules}
    IN  IF u \notin cfg.users THEN {}
        ELSE IF ruled # {} THEN {Min(ruled)}
        ELSE IF u \in DOMAIN cfg.selectors THEN {chosen[u]} ELSE {}
=============================================================================
