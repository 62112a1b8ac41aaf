----------------------------- MODULE MCDeviceState -----------------------------
(***************************************************************************)
(* Three claims on one node.  c1, left behind by an older release        *)
(* without Status, holds a channel and the IMEX daemon of domain d1; c2   *)
(* holds the IMEX daemon of d2; c3 holds a channel of d2, which the node  *)
(* can join only once c1 has left d1, next to two misconfigured groups: a *)
(* channel of d1 claimed from another namespace and a daemon config of d1 *)
(* over two devices.                                                       *)
(***************************************************************************)
EXTENDS DeviceState, TLC

CONSTANTS c1, c2, c3, d1, d2

MCClaims == {c1, c2, c3}
MCDomains == {d1, d2}
MCClaimGroups ==
  (c1 :> {[type |-> "channel", domain |-> d1, ok |-> TRUE],
          [type |-> "daemon", domain |-> d1, ok |-> TRUE]}) @@
  (c2 :> {[type |-> "daemon", domain |-> d2, ok |-> TRUE]}) @@
  (c3 :> {[type |-> "channel", domain |-> d2, ok |-> TRUE],
          [type |-> "channel", domain |-> d1, ok |-> FALSE],
          [type |-> "daemon", domain |-> d1, ok |-> FALSE]})
MCLegacy == {c1}
(* c1's name may be taken, once c1 is deleted, by a new claim in the same  *)
(* namespace with a channel of d1.                                         *)
MCRecreatable == {c1}
MCRecreatedGroups == c1 :> {[type |-> "channel", domain |-> d1, ok |-> TRUE]}
(* No name is reused. *)
NoRecreatable == {}
NoRecreatedGroups == [c \in {} |-> {}]

(* Two claims in distinct domains, both prepared afresh. *)
LeakClaims == {c1, c2}
LeakClaimGroups ==
  (c1 :> {[type |-> "channel", domain |-> d1, ok |-> TRUE]}) @@
  (c2 :> {[type |-> "daemon", domain |-> d2, ok |-> TRUE]})

(* Two claims of pods on this node holding channels of the same domain. *)
SharedClaimGroups ==
  (c1 :> {[type |-> "channel", domain |-> d1, ok |-> TRUE]}) @@
  (c2 :> {[type |-> "channel", domain |-> d1, ok |-> TRUE]})

(* One claim of the IMEX daemon whose daemon config governs two devices. *)
RejectClaims == {c1}
RejectClaimGroups == c1 :> {[type |-> "daemon", domain |-> d1, ok |-> FALSE]}
(* Two well-formed claims sharing domain d1, one also holding the IMEX     *)
(* daemon of d2, next to a claim whose daemon config governs two devices. *)
ReadyClaimGroups ==
  (c1 :> {[type |-> "channel", domain |-> d1, ok |-> TRUE]}) @@
  (c2 :> {[type |-> "channel", domain |-> d1, ok |-> TRUE],
          [type |-> "daemon", domain |-> d2, ok |-> TRUE]}) @@
  (c3 :> {[type |-> "daemon", domain |-> d1, ok |-> FALSE]})
(* c1, left behind by an older release, holds a channel of d1; once c1   *)
(* is deleted, a new claim under c1's name is allocated a channel of d2.  *)
RefetchClaims == {c1}
RefetchClaimGroups == c1 :> {[type |-> "channel", domain |-> d1, ok |-> TRUE]}
RefetchRecreatedGroups == c1 :> {[type |-> "channel", domain |-> d2, ok |-> TRUE]}
=============================================================================
