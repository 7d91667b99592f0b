---------------------------- MODULE HeldResponse ----------------------------
(***************************************************************************)
(* What the gateway promises of each public request it holds, without a    *)
(* word about registries, tickets, locks or clocks: the request is         *)
(* answered by one connector, or refused with one error page, or dropped   *)
(* because its client left; what has been answered is never answered       *)
(* again; and it does not stay held for ever.  Nothing is promised of a    *)
(* request whose ticket could not be published for certain.                *)
(***************************************************************************)
CONSTANT Reqs
VARIABLE state

States ==
  {"idle",        \* not there yet
   "held",        \* waiting for a connector
   "streaming",   \* a connector has committed the response head
   "served",      \* and has delivered the response
   "broken",      \* or has not, and the response is cut off
   "refused",     \* an error page was sent
   "dropped",     \* the client left before any answer
   "void"}        \* its publish failed

Init == state = [r \in Reqs |-> "idle"]

Move(r, from, to) ==
  /\ state[r] \in from
  /\ state' = [state EXCEPT ![r] = to]

Hold(r) == Move(r, {"idle"}, "held")
Commit(r) == Move(r, {"held"}, "streaming")

Finish(r) ==
  \/ Move(r, {"streaming"}, "served")
  \/ Move(r, {"streaming"}, "broken")
  \/ Move(r, {"held"}, "refused")
  \/ Move(r, {"held"}, "dropped")
  \/ Move(r, {"held", "streaming", "served", "broken"}, "void")

RefuseAtOnce(r) == Move(r, {"idle"}, "refused")

Next == \E r \in Reqs : Hold(r) \/ Commit(r) \/ Finish(r) \/ RefuseAtOnce(r)

Ends(r) == state[r] \in {"held", "streaming"} /\ Finish(r)

Safety == Init /\ [][Next]_state
Spec == Safety /\ \A r \in Reqs : WF_state(Ends(r))
=============================================================================
