--------------------------- MODULE WatcherProofs ---------------------------
(***************************************************************************)
(* The watcher's goroutines do not wait for one another while no more      *)
(* events came than the channel holds, for every capacity, any files and   *)
(* any age.                                                                *)
(***************************************************************************)
EXTENDS Watcher, TLAPS

(* The FileInfo is assigned before its address is anywhere.                 *)
AddressedIsAssigned ==
    /\ producer = "write" => last \in File
    /\ producer = "send" => last \in File /\ fileInfo \in File
    /\ qChan > 0 => fileInfo \in File
    /\ consumer # "receive" => fileInfo \in File

TypeInv == TypeOK /\ AddressedIsAssigned

(* What a reader finds is of a file, or a torn path.                        *)
LEMMA FoundIsFile ==
    ASSUME TypeInv, consumer # "receive"
    PROVE  Found \subseteq File /\ FoundPath \subseteq File \cup {Torn}
  BY DEF TypeInv, AddressedIsAssigned, Found, FoundPath

(* Initially nothing is addressed.                                          *)
LEMMA InitTypeInv == Init => TypeInv
  BY CapacityAssumption, QueueAssumption, AgeAssumption
     DEF Init, TypeInv, TypeOK, AddressedIsAssigned, Maybe

(* No step of a goroutine, a file or the time breaks the type invariant.    *)
LEMMA NextTypeInv == TypeInv /\ [Next]_vars => TypeInv'
  <1> SUFFICES ASSUME TypeInv, [Next]_vars PROVE TypeInv'
    OBVIOUS
  <1> USE CapacityAssumption, QueueAssumption, AgeAssumption
      DEF TypeInv, TypeOK, AddressedIsAssigned, Maybe
  <1>1. ASSUME NEW f \in File, Create(f) PROVE TypeInv'
    BY <1>1 DEF Create
  <1>2. CASE Tick
    <2>1. age' \in [File -> (0..MinAge) \cup {None}]
      BY <1>2 DEF Tick
    <2> QED
      BY <1>2, <2>1 DEF Tick
  <1>3. ASSUME NEW f \in File, Event(f) PROVE TypeInv'
    BY <1>3 DEF Event
  <1>4. CASE Written
    BY <1>4 DEF Written
  <1>5. CASE Send
    BY <1>5 DEF Send, Room
  <1>6. CASE Receive
    BY <1>6 DEF Receive, Rest
  <1>7. CASE Test
    BY <1>7 DEF Test
  <1>8. CASE Resend
    BY <1>8 DEF Resend, Room, SentBack
  <1>9. CASE AppendToQueue
    BY <1>9, FoundIsFile DEF AppendToQueue, PeersTakeIt
  <1>10. CASE Save
    BY <1>10, FoundIsFile DEF Save
  <1>11. CASE PostTake \/ UNCHANGED vars
    BY <1>11 DEF PostTake, vars
  <1> QED
    BY <1>1, <1>2, <1>3, <1>4, <1>5, <1>6, <1>7, <1>8, <1>9, <1>10, <1>11
       DEF Next, Watching, Handling

(* TypeOK is an invariant: also amid an assignment, what is queued and      *)
(* saved are files, but for torn paths.                                     *)
THEOREM TypeCorrect == Spec => []TypeOK
  <1>1. TypeInv => TypeOK
    BY DEF TypeInv
  <1> QED
    BY <1>1, InitTypeInv, NextTypeInv, PTL DEF Spec

-----------------------------------------------------------------------------
Holds(p) == IF p THEN 1 ELSE 0

(* Every address, in the channel or in a goroutine's hand, is of an event.  *)
Addresses == qChan + Holds(producer # "event") + Holds(consumer \in {"test", "resend"})
AddressesAreEvents == Addresses <= taken

(* A goroutine hands the addresses on, and only an event brings a new one.  *)
LEMMA NextAddresses ==
    TypeOK /\ AddressesAreEvents /\ [Next]_vars => AddressesAreEvents'
  <1> SUFFICES ASSUME TypeOK, AddressesAreEvents, [Next]_vars
               PROVE  AddressesAreEvents'
    OBVIOUS
  <1> USE DEF AddressesAreEvents, Addresses, Holds
  <1>0. qChan \in Nat /\ taken \in Nat
    BY CapacityAssumption DEF TypeOK
  <1>1. CASE \/ Tick
             \/ \E f \in File : Create(f)
             \/ PostTake \/ UNCHANGED vars
    BY <1>1 DEF Create, Tick, PostTake, vars
  <1>2. ASSUME NEW f \in File, Event(f) PROVE AddressesAreEvents'
    BY <1>0, <1>2 DEF Event
  <1>3. CASE Written \/ Send
    BY <1>0, <1>3 DEF Written, Send
  <1>4. CASE Receive
    BY <1>0, <1>4 DEF Receive, Rest
  <1>5. CASE Test
    BY <1>0, <1>5 DEF Test
  <1>6. CASE Resend
    BY <1>0, <1>6 DEF Resend, SentBack
  <1>7. CASE AppendToQueue \/ Save
    BY <1>0, <1>7 DEF AppendToQueue, Save
  <1> QED
    BY <1>1, <1>2, <1>3, <1>4, <1>5, <1>6, <1>7 DEF Next, Watching, Handling

(* One address in hand and a full channel are more than Capacity.           *)
LEMMA AddressesLeaveRoom == TypeOK /\ AddressesAreEvents => NeverStuck
  BY CapacityAssumption DEF TypeOK, AddressesAreEvents, Addresses, Holds, NeverStuck

(* The goroutine that sends to its own channel finds it full only when more *)
(* events came than the channel holds, whatever the files, their ages and   *)
(* the order of the steps.                                                  *)
THEOREM NeverStuckCorrect == Spec => []NeverStuck
  <1>1. Init => AddressesAreEvents
    BY DEF Init, AddressesAreEvents, Addresses, Holds
  <1> QED
    BY <1>1, TypeCorrect, NextAddresses, AddressesLeaveRoom, PTL DEF Spec
=============================================================================
