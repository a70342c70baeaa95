------------------------------ MODULE Channel ------------------------------
(***************************************************************************)
(* What the post office promises (network/post.h): mail that a thread      *)
(* sends is lost at that moment or not at all.  What is not lost is put    *)
(* into its box once, in the order in which it was sent, and comes out in  *)
(* that order, as long as the machine of the box runs.                     *)
(***************************************************************************)
EXTENDS Sequences

CONSTANTS Machine, Box, Sender, HostOf, Mail, NULL

VARIABLES up,       \* machines that run
          pending,  \* sender -> the mail of its Send, until it is sent
          transit,  \* machine -> mail on its way to it, oldest first
          mailbox   \* machine -> box -> mail in it, oldest first

vars == <<up, pending, transit, mailbox>>

Empty == [b \in Box |-> << >>]

Init ==
  /\ up = {}
  /\ pending = [t \in Sender |-> NULL]
  /\ transit = [m \in Machine |-> << >>]
  /\ mailbox = [m \in Machine |-> Empty]

Start(m) == up' = up \union {m} /\ UNCHANGED <<pending, transit, mailbox>>

(* A machine that halts takes all of its mail with it. *)
Halt(m) ==
  /\ up' = up \ {m}
  /\ pending' = [t \in Sender |-> IF HostOf[t] = m THEN NULL ELSE pending[t]]
  /\ transit' = [transit EXCEPT ![m] = << >>]
  /\ mailbox' = [mailbox EXCEPT ![m] = Empty]

Call(t, p) ==
  /\ pending[t] = NULL
  /\ pending' = [pending EXCEPT ![t] = p]
  /\ UNCHANGED <<up, transit, mailbox>>

Send(t) ==
  /\ pending[t] # NULL
  /\ pending[t].to \in up
  /\ transit' = [transit EXCEPT ![pending[t].to] = Append(@, pending[t])]
  /\ pending' = [pending EXCEPT ![t] = NULL]
  /\ UNCHANGED <<up, mailbox>>

Lose(t) ==
  /\ pending[t] # NULL
  /\ pending' = [pending EXCEPT ![t] = NULL]
  /\ UNCHANGED <<up, transit, mailbox>>

Deliver(m) ==
  /\ transit[m] # << >>
  /\ mailbox' = [mailbox EXCEPT ![m][Head(transit[m]).box] =
                   Append(@, Head(transit[m]))]
  /\ transit' = [transit EXCEPT ![m] = Tail(@)]
  /\ UNCHANGED <<up, pending>>

Receive(m, b) ==
  /\ mailbox[m][b] # << >>
  /\ mailbox' = [mailbox EXCEPT ![m][b] = Tail(@)]
  /\ UNCHANGED <<up, pending, transit>>

Next ==
  \/ \E m \in Machine : Start(m) \/ Halt(m) \/ Deliver(m)
  \/ \E m \in Machine, b \in Box : Receive(m, b)
  \/ \E t \in Sender : Send(t) \/ Lose(t) \/ \E p \in Mail : Call(t, p)

Spec == Init /\ [][Next]_vars
=============================================================================
