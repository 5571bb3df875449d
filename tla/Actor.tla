-------------------------------- MODULE Actor --------------------------------
(***************************************************************************)
(* What the framework promises the author of a service, whatever the       *)
(* number of worker threads: a service is an actor.  Messages posted to it *)
(* are handled one at a time, each exactly once, in the order in which     *)
(* its mailbox accepted them.                                              *)
(***************************************************************************)
EXTENDS Sequences

CONSTANTS Services,   \* the services
          Message     \* what can be posted to a service

VARIABLES mailbox,    \* mailbox[s]: messages accepted and not yet taken
          handling    \* handling[s]: << >>, or <<m>> while m is being handled

vars == <<mailbox, handling>>

Init == /\ mailbox = [s \in Services |-> << >>]
        /\ handling = [s \in Services |-> << >>]

Post(s, m) == /\ mailbox' = [mailbox EXCEPT ![s] = Append(@, m)]
              /\ UNCHANGED handling

Begin(s) == /\ handling[s] = << >>
            /\ mailbox[s] # << >>
            /\ handling' = [handling EXCEPT ![s] = <<Head(mailbox[s])>>]
            /\ mailbox' = [mailbox EXCEPT ![s] = Tail(@)]

Finish(s) == /\ handling[s] # << >>
             /\ handling' = [handling EXCEPT ![s] = << >>]
             /\ UNCHANGED mailbox

Next == \E s \in Services : \/ \E m \in Message : Post(s, m)
                            \/ Begin(s)
                            \/ Finish(s)

Spec == Init /\ [][Next]_vars
=============================================================================
