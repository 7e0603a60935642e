----------------------------- MODULE SignalEvents -----------------------------
(***************************************************************************)
(* The slots in which signals wait for the worker (core/signalevents.cpp,  *)
(* and its use by core/signal.cpp).                                        *)
(*                                                                         *)
(* A signal takes the first slot that is free, unless it comes upon itself *)
(* in a slot before that.  The worker takes the first slot that is set, so *)
(* that a free slot may lie before a slot in which the signal still waits: *)
(* then the signal is stored once more.                                    *)
(***************************************************************************)
EXTENDS Naturals, FiniteSets

CONSTANTS
  Signals,   \* the registered signals; each has one receiver, and value 0
  NumSlots   \* slots.size()

ASSUME SlotAssumption == NumSlots \in Nat \ {0}

None == "none"

ASSUME NoneAssumption == None \notin Signals

VARIABLES
  slots,     \* what each slot holds
  hasevent,
  owed,      \* history: signals raised since they were last delivered
  asserted   \* an assert has failed

vars == <<slots, hasevent, owed, asserted>>

Slots == 1..NumSlots

\* Types of the state of SignalEvents.
SignalTypeOK ==
  /\ slots \in [Slots -> Signals \cup {None}]
  /\ hasevent \in Nat /\ owed \subseteq Signals /\ asserted \in BOOLEAN

Before(i) == 1..(i - 1)

Init ==
  /\ slots = [i \in Slots |-> None] /\ hasevent = 0
  /\ owed = {} /\ asserted = FALSE

\* Variant: a signal of the same receiver is not stored again.
setOnce(s) ==
  /\ owed' = owed \cup {s} /\ UNCHANGED asserted
  /\ \/ slots[1] # None /\ UNCHANGED <<slots, hasevent>>
     \/ /\ slots[1] = None
        /\ slots' = [slots EXCEPT ![1] = s] /\ hasevent' = hasevent + 1

\* Returns true, and the worker is woken, if the signal is stored.
set(s) ==
  /\ owed' = owed \cup {s}
  /\ \/ \E i \in Slots :
          /\ slots[i] = None /\ \A j \in Before(i) : slots[j] \notin {None, s}
          /\ slots' = [slots EXCEPT ![i] = s] /\ hasevent' = hasevent + 1
          /\ UNCHANGED asserted
     \/ /\ \E i \in Slots : slots[i] = s /\ \A j \in Before(i) : slots[j] # None
        /\ UNCHANGED <<slots, hasevent, asserted>>
     \/ /\ \A i \in Slots : slots[i] \notin {None, s}
        /\ asserted' = TRUE /\ UNCHANGED <<slots, hasevent>>

\* WorkManager::run, once hasEvent has returned true.
getClearFirst ==
  /\ hasevent > 0
  /\ \E i \in Slots :
       /\ slots[i] # None /\ \A j \in Before(i) : slots[j] = None
       /\ slots' = [slots EXCEPT ![i] = None] /\ hasevent' = hasevent - 1
       /\ owed' = owed \ {slots[i]}
  /\ UNCHANGED asserted

\* The program has crashed.
Crashed == asserted /\ UNCHANGED vars

Next == \/ ~asserted /\ (getClearFirst \/ \E s \in Signals : set(s))
        \/ Crashed

Spec == Init /\ [][Next]_vars

-----------------------------------------------------------------------------
\* hasEvent, which decides whether the worker looks at the signals or at its
\* queues, agrees with the slots; so getClearFirst, too, finds what it asserts.
HasEventExact == hasevent = Cardinality({i \in Slots : slots[i] # None})

\* A signal that was raised after its last delivery waits in a slot, though
\* several of them may have become one.
NoSignalLost == ~asserted => \A s \in owed : \E i \in Slots : slots[i] = s

\* The counter tells what the slots hold, and the slots hold what is owed.
SignalsAccounted == HasEventExact /\ NoSignalLost
=============================================================================
