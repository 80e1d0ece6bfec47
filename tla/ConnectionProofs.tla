-------------------------- MODULE ConnectionProofs --------------------------
(* What the operations of a connection keep: the types of its three variables,  *)
(* the bound of the queue, and that frames wait only while there is none.  The  *)
(* modules built on Connection cite these facts.                                *)
EXTENDS Connection, SequenceTheorems, TLAPS

LEMMA SendType ==
    ASSUME MaxPending \in Nat \ {0}, LinkTypeOK, NEW f \in Frames, Send(f)
    PROVE  LinkTypeOK'
  <1>1. CASE online
    BY <1>1 DEF Send, LinkTypeOK
  <1>2. CASE ~online
    <2> DEFINE kept == IF Len(pending) >= MaxPending THEN Tail(pending) ELSE pending
    <2>1. kept \in Seq(Frames) /\ Len(kept) < MaxPending
      BY DEF LinkTypeOK
    <2>2. pending' = Append(kept, f) /\ UNCHANGED <<online, wire>>
      BY <1>2 DEF Send
    <2> HIDE DEF kept
    <2> QED BY <1>2, <2>1, <2>2 DEF LinkTypeOK
  <1> QED BY <1>1, <1>2 DEF LinkTypeOK

LEMMA ConnectType ==
    ASSUME MaxPending \in Nat \ {0}, LinkTypeOK, NEW greeting \in Seq(Frames), Connect(greeting)
    PROVE  LinkTypeOK'
  <1>1. <<>> \in Seq(Frames) /\ Len(<<>>) <= MaxPending
    OBVIOUS
  <1>2. greeting \o pending \in Seq(Frames)
    BY ConcatProperties DEF LinkTypeOK
  <1> QED BY <1>1, <1>2 DEF LinkTypeOK, Connect

LEMMA LoseType ==
    ASSUME LinkTypeOK, Lose
    PROVE  LinkTypeOK'
  BY DEF LinkTypeOK, Lose

LEMMA TakeType ==
    ASSUME LinkTypeOK, Take
    PROVE  LinkTypeOK' /\ Head(wire) \in Frames
  BY DEF LinkTypeOK, Take

LEMMA LinkUnchanged ==
    ASSUME LinkTypeOK, UNCHANGED link
    PROVE  LinkTypeOK'
  BY DEF LinkTypeOK, link

LEMMA LinkInitType ==
    ASSUME MaxPending \in Nat \ {0}, LinkInit
    PROVE  LinkTypeOK
  <1>1. <<>> \in Seq(Frames) /\ Len(<<>>) <= MaxPending
    OBVIOUS
  <1> QED BY <1>1 DEF LinkInit, LinkTypeOK

-----------------------------------------------------------------------------
\* The connection keeps its types and its bound, whatever is sent, and frames wait
\* only while there is none.
THEOREM ConnectionTypeCorrect ==
    ASSUME MaxPending \in Nat \ {0}, Greetings \subseteq Seq(Frames)
    PROVE  LinkSpec => []LinkTypeOK
  <1>1. LinkInit => LinkTypeOK
    BY LinkInitType
  <1>2. LinkTypeOK /\ [LinkNext]_link => LinkTypeOK'
    BY SendType, ConnectType, LoseType, TakeType, LinkUnchanged DEF LinkNext
  <1> QED BY <1>1, <1>2, PTL DEF LinkSpec
=============================================================================
