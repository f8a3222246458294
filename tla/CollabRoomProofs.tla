--------------------------- MODULE CollabRoomProofs ---------------------------
(***************************************************************************)
(* For every number of tabs, edits and faults: a tab that shows "synced"   *)
(* has nothing the room lacks, and the room clients are attached to is     *)
(* registered and loaded.                                                  *)
(*                                                                         *)
(* The argument: what a synced tab has is in the room or in a frame it has *)
(* sent; the frames it has sent and the acks on their way back add up to   *)
(* the count of missing acks, so at zero no frame is left.  The room loses *)
(* nothing while a client is attached: it is loaded once, before the first *)
(* attach, by the one connection that holds its lock.                      *)
(***************************************************************************)
EXTENDS CollabRoom, FiniteSetTheorems, TLAPS

\* The places of the acks in a sequence of frames
AckAt(s) == {i \in 1..Len(s) : s[i].op = "ack"}

\* The lock of the room is held by the one connection that loads it.
LockInv ==
    /\ \A c \in Clients : sock[c] \in {"select", "load"} => lock = c /\ ~hydrated
    /\ lock \in Clients => sock[lock] \in {"select", "load"}

\* The room exists as long as a connection is being opened or is attached.
RoomInv ==
    /\ \A c \in Clients : sock[c] \in {"lock", "select", "load"} => registered /\ warm
    /\ \A c \in Clients : sock[c] = "open" => registered /\ hydrated

\* On a socket that is not open nothing is on the way and nothing is counted.
Silent(c) == up[c] = <<>> /\ down[c] = <<>> /\ unacked[c] = 0 /\ ~synced[c]

\* The updates that are not applied yet, and the acks on the way
Counted(c) == unacked[c] = Len(up[c]) + Cardinality(AckAt(down[c]))

\* A frame from the room holds nothing the room lacks.
Within(s, content) == \A i \in 1..Len(s) : s[i].edits \subseteq content

Delivers(c) == sock[c] = "open" => Within(down[c], text)

\* A frame of s holds x.
Carries(s, x) == \E i \in 1..Len(s) : x \in s[i]

\* What a synced tab has is in the room or on its way there.
Sent(c) == synced[c] => \A x \in doc[c] : x \in text \/ Carries(up[c], x)

Connection(c) ==
    /\ sock[c] # "open" => Silent(c)
    /\ Counted(c)
    /\ Delivers(c)
    /\ Sent(c)

\* The inductive invariant
IInv == TypeOK /\ LockInv /\ RoomInv /\ \A c \in Clients : Connection(c)
-----------------------------------------------------------------------------
(* Sequences of frames *)

LEMMA AckAtFinite ==
    ASSUME NEW s \in Seq(Frame)
    PROVE  IsFiniteSet(AckAt(s)) /\ Cardinality(AckAt(s)) \in Nat
<1>1. IsFiniteSet(1..Len(s))
  BY FS_Interval
<1>2. AckAt(s) \in SUBSET (1..Len(s))
  BY DEF AckAt
<1>3. IsFiniteSet(AckAt(s))
  BY <1>1, <1>2, FS_Subset
<1> QED BY <1>3, FS_CardinalityType

LEMMA AckAtEmpty == Cardinality(AckAt(<<>>)) = 0
<1>1. AckAt(<<>>) = {}
  BY DEF AckAt
<1> QED BY <1>1, FS_EmptySet

\* An update sent adds no ack, an ack adds one.
LEMMA AckAtAppend ==
    ASSUME NEW s \in Seq(Frame), NEW f \in Frame
    PROVE  Cardinality(AckAt(Append(s, f)))
             = Cardinality(AckAt(s)) + (IF f.op = "ack" THEN 1 ELSE 0)
<1> DEFINE t == Append(s, f)
<1>1. Len(t) = Len(s) + 1 /\ t[Len(s) + 1] = f /\ \A i \in 1..Len(s) : t[i] = s[i]
  OBVIOUS
<1>0. Len(s) \in Nat
  OBVIOUS
<1>a. \A i : i \in 1..(Len(s) + 1) <=> i \in 1..Len(s) \/ i = Len(s) + 1
  BY <1>0
<1>2. AckAt(t) = AckAt(s) \union (IF f.op = "ack" THEN {Len(s) + 1} ELSE {})
  <2> HIDE DEF t
  <2> QED BY <1>0, <1>1, <1>a DEF AckAt
<1>3. Len(s) + 1 \notin AckAt(s)
  BY <1>0 DEF AckAt
<1> HIDE DEF t
<1>4. CASE f.op = "ack"
  <2>1. AckAt(t) = AckAt(s) \union {Len(s) + 1}
    BY <1>2, <1>4
  <2> QED BY <2>1, <1>3, <1>4, AckAtFinite, FS_AddElement DEF t
<1>5. CASE f.op # "ack"
  <2>1. AckAt(t) = AckAt(s)
    BY <1>2, <1>5
  <2> QED BY <2>1, <1>5, AckAtFinite DEF t
<1> QED BY <1>4, <1>5

\* An ack received is one less on the way.
LEMMA AckAtTail ==
    ASSUME NEW s \in Seq(Frame), s # <<>>
    PROVE  Cardinality(AckAt(s))
             = Cardinality(AckAt(Tail(s))) + (IF Head(s).op = "ack" THEN 1 ELSE 0)
<1> DEFINE t == Tail(s)
           rest == AckAt(s) \ {1}
<1>1. /\ t \in Seq(Frame) /\ Len(s) \in Nat /\ Len(s) > 0 /\ Len(t) = Len(s) - 1
      /\ Head(s) = s[1] /\ \A i \in 1..Len(t) : t[i] = s[i + 1]
  OBVIOUS
<1>2. Cardinality(rest) = Cardinality(AckAt(t)) /\ IsFiniteSet(rest)
  <2> DEFINE shift == [i \in AckAt(t) |-> i + 1]
  <2> HIDE DEF t
  <2>1. \A i \in AckAt(t) : i + 1 \in rest
    BY <1>1 DEF AckAt
  <2>2. \A j \in rest : j - 1 \in AckAt(t) /\ j = (j - 1) + 1
    BY <1>1 DEF AckAt
  <2>3. \A i, j \in AckAt(t) : i + 1 = j + 1 => i = j
    BY <1>1 DEF AckAt
  <2>4. shift \in Bijection(AckAt(t), rest)
    <3> HIDE DEF rest
    <3>1. shift \in [AckAt(t) -> rest]
      BY <2>1
    <3>2. shift \in Injection(AckAt(t), rest)
      BY <3>1, <2>3 DEF Injection, IsInjective
    <3>3. \A j \in rest : \E i \in AckAt(t) : shift[i] = j
      BY <2>2
    <3> QED BY <3>1, <3>2, <3>3 DEF Bijection, Surjection
  <2>5. IsFiniteSet(AckAt(t))
    BY <1>1, AckAtFinite
  <2> HIDE DEF shift, rest
  <2>6. ExistsBijection(AckAt(t), rest)
    BY <2>4 DEF ExistsBijection
  <2> QED BY <2>5, <2>6, FS_Bijection
<1>3. IsFiniteSet(AckAt(s)) /\ Cardinality(AckAt(t)) \in Nat
  BY <1>1, AckAtFinite
<1>4. CASE Head(s).op = "ack"
  <2>1. 1 \in AckAt(s)
    BY <1>1, <1>4 DEF AckAt
  <2>2. Cardinality(rest) = Cardinality(AckAt(s)) - 1 /\ Cardinality(AckAt(s)) \in Nat
    BY <2>1, <1>3, FS_RemoveElement, FS_CardinalityType
  <2> QED BY <2>2, <1>2, <1>3, <1>4
<1>5. CASE Head(s).op # "ack"
  <2>1. rest = AckAt(s)
    BY <1>1, <1>5 DEF AckAt
  <2> HIDE DEF rest
  <2> QED BY <2>1, <1>2, <1>3, <1>5
<1> QED BY <1>4, <1>5

LEMMA CarriesAppend ==
    ASSUME NEW s \in Seq(Content), NEW u \in Content, NEW x
    PROVE  Carries(Append(s, u), x) <=> Carries(s, x) \/ x \in u
<1> DEFINE t == Append(s, u)
<1>1. Len(s) \in Nat /\ Len(t) = Len(s) + 1 /\ t[Len(s) + 1] = u /\ \A i \in 1..Len(s) : t[i] = s[i]
  OBVIOUS
<1>2. \A i : i \in 1..(Len(s) + 1) <=> i \in 1..Len(s) \/ i = Len(s) + 1
  BY <1>1
<1> HIDE DEF t
<1>3. Carries(t, x) <=> Carries(s, x) \/ x \in u
  BY <1>1, <1>2 DEF Carries
<1> QED BY <1>3 DEF t

LEMMA CarriesTail ==
    ASSUME NEW s \in Seq(Content), s # <<>>, NEW x, Carries(s, x)
    PROVE  Carries(Tail(s), x) \/ x \in Head(s)
<1>1. /\ Len(s) \in Nat /\ Len(Tail(s)) = Len(s) - 1 /\ Head(s) = s[1]
      /\ \A i \in 1..Len(Tail(s)) : Tail(s)[i] = s[i + 1]
  OBVIOUS
<1>2. PICK i \in 1..Len(s) : x \in s[i]
  BY DEF Carries
<1>3. CASE i = 1
  BY <1>1, <1>2, <1>3
<1>4. CASE i # 1
  <2>1. i - 1 \in 1..Len(Tail(s)) /\ (i - 1) + 1 = i
    BY <1>1, <1>4
  <2> QED BY <1>1, <1>2, <2>1 DEF Carries
<1> QED BY <1>3, <1>4

LEMMA WithinAppend ==
    ASSUME NEW s \in Seq(Frame), NEW f \in Frame, NEW content, Within(s, content), f.edits \subseteq content
    PROVE  Within(Append(s, f), content)
<1> DEFINE t == Append(s, f)
<1>1. Len(s) \in Nat /\ Len(t) = Len(s) + 1 /\ t[Len(s) + 1] = f /\ \A i \in 1..Len(s) : t[i] = s[i]
  OBVIOUS
<1>2. \A i : i \in 1..(Len(s) + 1) <=> i \in 1..Len(s) \/ i = Len(s) + 1
  BY <1>1
<1> HIDE DEF t
<1>3. Within(t, content)
  BY <1>1, <1>2 DEF Within
<1> QED BY <1>3 DEF t

LEMMA WithinTail ==
    ASSUME NEW s \in Seq(Frame), s # <<>>, NEW content, Within(s, content)
    PROVE  Within(Tail(s), content) /\ Head(s).edits \subseteq content
<1>1. /\ Len(s) \in Nat /\ Len(s) > 0 /\ Len(Tail(s)) = Len(s) - 1 /\ Head(s) = s[1]
      /\ \A i \in 1..Len(Tail(s)) : Tail(s)[i] = s[i + 1]
  OBVIOUS
<1>2. \A i \in 1..Len(Tail(s)) : i + 1 \in 1..Len(s)
  BY <1>1
<1>3. 1 \in 1..Len(s)
  BY <1>1
<1> QED BY <1>1, <1>2, <1>3 DEF Within

\* A room that grows still has what the frames hold.
LEMMA WithinMore ==
    ASSUME NEW s, NEW content, NEW more, Within(s, content)
    PROVE  Within(s, content \union more)
BY DEF Within

\* ServerUpdate: the sender gets an ack, the other attached clients the update.
LEMMA ServerFrames ==
    ASSUME TypeOK, NEW c \in Clients, ServerUpdate(c)
    PROVE  LET ack  == [op |-> "ack", edits |-> {}]
               news == [op |-> "update", edits |-> Head(up[c])]
           IN  /\ ack \in Frame /\ news \in Frame /\ Head(up[c]) \in Content
               /\ Tail(up[c]) \in Seq(Content)
               /\ \A d \in Clients :
                    down'[d] = IF d = c THEN Append(down[d], ack)
                               ELSE IF sock[d] = "open" THEN Append(down[d], news)
                               ELSE down[d]
<1> DEFINE ack  == [op |-> "ack", edits |-> {}]
           news == [op |-> "update", edits |-> Head(up[c])]
<1>1. up[c] \in Seq(Content) /\ up[c] # <<>> /\ down \in [Clients -> Seq(Frame)]
  BY DEF TypeOK, ServerUpdate
<1>2. Head(up[c]) \in Content /\ Tail(up[c]) \in Seq(Content)
  BY <1>1
<1>3. ack \in Frame /\ news \in Frame
  BY <1>2 DEF Frame, Content
<1>4. \A s \in Seq(Frame), f \in Frame :
        s \o <<f>> \o <<>> = Append(s, f) /\ s \o <<>> \o <<f>> = Append(s, f) /\ s \o <<>> \o <<>> = s
  OBVIOUS
<1>5. \A d \in Clients :
        down'[d] = down[d] \o (IF d \in Receivers(c) THEN <<news>> ELSE <<>>)
                           \o (IF d = c THEN <<ack>> ELSE <<>>)
  BY DEF ServerUpdate
<1>6. \A d \in Clients : d \in Receivers(c) <=> sock[d] = "open" /\ d # c
  BY DEF Receivers, Attached
<1> HIDE DEF ack, news
<1>7. ASSUME NEW d \in Clients
      PROVE  down'[d] = IF d = c THEN Append(down[d], ack)
                        ELSE IF sock[d] = "open" THEN Append(down[d], news) ELSE down[d]
  <2>1. down[d] \in Seq(Frame)
    BY <1>1
  <2>2. CASE d = c
    <3>1. down'[d] = down[d] \o <<>> \o <<ack>>
      BY <1>5, <1>6, <2>2
    <3> QED BY <3>1, <2>1, <1>3, <1>4, <2>2
  <2>3. CASE d # c /\ sock[d] = "open"
    <3>1. down'[d] = down[d] \o <<news>> \o <<>>
      BY <1>5, <1>6, <2>3
    <3> QED BY <3>1, <2>1, <1>3, <1>4, <2>3
  <2>4. CASE d # c /\ sock[d] # "open"
    <3>1. down'[d] = down[d] \o <<>> \o <<>>
      BY <1>5, <1>6, <2>4
    <3> QED BY <3>1, <2>1, <1>4, <2>4
  <2> QED BY <2>2, <2>3, <2>4
<1> QED BY <1>2, <1>3, <1>7 DEF ack, news
-----------------------------------------------------------------------------
(* Types *)

LEMMA TypeInit == Init => TypeOK
<1> SUFFICES ASSUME Init PROVE TypeOK
  OBVIOUS
<1>1. {} \in Content /\ Base \in Content
  BY DEF Content
<1>2. 0 \in 0..MaxFaults
  BY CollabAssumption
<1>3. <<>> \in Seq(Content) /\ <<>> \in Seq(Frame)
  OBVIOUS
<1>4. synced \in [Clients -> BOOLEAN]
  BY DEF Init
<1>5. up \in [Clients -> Seq(Content)] /\ down \in [Clients -> Seq(Frame)]
  BY <1>3 DEF Init
<1> QED BY <1>1, <1>2, <1>4, <1>5 DEF Init, TypeOK

LEMMA TypeStep == TypeOK /\ [Next]_vars => TypeOK'
<1> SUFFICES ASSUME TypeOK, [Next]_vars PROVE TypeOK'
  OBVIOUS
<1> USE CollabAssumption
<1>0. Content = SUBSET (Edits \union Base) /\ {} \in Content
      /\ (\A u, v \in Content : u \union v \in Content /\ u \ v \in Content)
      /\ (\A e \in Edits : {e} \in Content)
  BY DEF Content
<1>f. faults' = faults \/ (\E kind \in FaultKinds : Fault(kind)) => faults' \in 0..MaxFaults
  BY DEF TypeOK, Fault
<1>c. ASSUME NEW S, Closed(S)
      PROVE  /\ sock' \in [Clients -> {"off", "lock", "select", "load", "open"}]
             /\ synced' \in [Clients -> BOOLEAN]
             /\ unacked' \in [Clients -> Nat]
             /\ up' \in [Clients -> Seq(Content)]
             /\ down' \in [Clients -> Seq(Frame)]
  <2>1. <<>> \in Seq(Content) /\ <<>> \in Seq(Frame)
    OBVIOUS
  <2>2. up' \in [Clients -> Seq(Content)] /\ down' \in [Clients -> Seq(Frame)]
    BY <1>c, <2>1 DEF Closed, TypeOK
  <2>3. synced' \in [Clients -> BOOLEAN]
    BY <1>c DEF Closed, TypeOK
  <2> QED BY <1>c, <2>2, <2>3 DEF Closed, TypeOK
<1>u. ASSUME NEW c \in Clients, NEW u \in Content, SendUpdate(c, u)
      PROVE  up' \in [Clients -> Seq(Content)] /\ unacked' \in [Clients -> Nat]
  BY <1>u DEF SendUpdate, TypeOK
<1>1. ASSUME NEW c \in Clients, OpenTab(c) PROVE TypeOK'
  BY <1>1 DEF OpenTab, TypeOK, NoFault, sockVars, roomVars, openVars, ckVars
<1>2. ASSUME NEW c \in Clients, CloseTab(c) PROVE TypeOK'
  BY <1>0, <1>2, <1>c DEF CloseTab, TypeOK, NoFault, roomVars, openVars, ckVars
<1>3. ASSUME NEW c \in Clients, Drop(c) PROVE TypeOK'
  BY <1>3, <1>c, <1>f DEF Drop, TypeOK, Fault, tabVars, roomVars, openVars, ckVars
<1>4. ASSUME NEW c \in Clients, OpenFails(c) PROVE TypeOK'
  BY <1>4, <1>c, <1>f DEF OpenFails, TypeOK, Fault, tabVars, roomVars, ckVars
<1>5. ASSUME NEW c \in Clients, Connect(c) PROVE TypeOK'
  BY <1>5 DEF Connect, TypeOK, NoFault, tabVars, openVars, ckVars
<1>6. ASSUME NEW c \in Clients, OpenLocked(c) PROVE TypeOK'
  <2>1. sock' \in [Clients -> {"off", "lock", "select", "load", "open"}] /\ lock' \in Clients \union {Nobody}
    BY <1>6 DEF OpenLocked, Attach, TypeOK
  <2>2. <<FirstFrame(text)>> \in Seq(Frame)
    BY DEF TypeOK, FirstFrame, Frame
  <2>3. down' \in [Clients -> Seq(Frame)]
    BY <1>6, <2>2 DEF OpenLocked, Attach, TypeOK
  <2> QED BY <1>6, <2>1, <2>3 DEF OpenLocked, TypeOK, NoFault, tabVars, roomVars, ckVars
<1>7. ASSUME NEW c \in Clients, OpenSelect(c) PROVE TypeOK'
  BY <1>7 DEF OpenSelect, TypeOK, NoFault, tabVars, roomVars, ckVars
<1>8. ASSUME NEW c \in Clients, OpenLoad(c) PROVE TypeOK'
  <2>1. sock' \in [Clients -> {"off", "lock", "select", "load", "open"}]
    BY <1>8 DEF OpenLoad, Attach, TypeOK
  <2>2. <<FirstFrame(loaded)>> \in Seq(Frame)
    BY DEF TypeOK, FirstFrame, Frame
  <2>3. down' \in [Clients -> Seq(Frame)]
    BY <1>8, <2>2 DEF OpenLoad, Attach, TypeOK
  <2> QED BY <1>0, <1>8, <2>1, <2>3 DEF OpenLoad, TypeOK, NoFault, tabVars, ckVars
<1>9. ASSUME NEW c \in Clients, ReceiveUpdate(c) PROVE TypeOK'
  <2> DEFINE u == Head(down[c]).edits
  <2>0. down[c] \in Seq(Frame) /\ down[c] # <<>>
    BY <1>9 DEF ReceiveUpdate, TypeOK
  <2>a. Head(down[c]) \in Frame /\ Tail(down[c]) \in Seq(Frame)
    BY <2>0
  <2>1. u \in Content
    BY <2>a DEF Frame
  <2>2. Missing(c, u) \in Content
    BY <1>0, <2>1 DEF Missing, TypeOK
  <2>3. up' \in [Clients -> Seq(Content)] /\ unacked' \in [Clients -> Nat]
    BY <1>9, <1>u, <2>2 DEF ReceiveUpdate, TypeOK
  <2>4. doc' \in [Clients -> Content] /\ synced' \in [Clients -> BOOLEAN]
    BY <1>0, <1>9, <2>1 DEF ReceiveUpdate, TypeOK
  <2>5. down' \in [Clients -> Seq(Frame)]
    BY <1>9, <2>a DEF ReceiveUpdate, TypeOK
  <2> QED BY <1>9, <2>3, <2>4, <2>5 DEF ReceiveUpdate, TypeOK, NoFault, roomVars, openVars, ckVars
<1>10. ASSUME NEW c \in Clients, ReceiveAck(c) PROVE TypeOK'
  <2>0. down[c] \in Seq(Frame) /\ down[c] # <<>>
    BY <1>10 DEF ReceiveAck, TypeOK
  <2>1. Tail(down[c]) \in Seq(Frame)
    BY <2>0
  <2>2. unacked' \in [Clients -> Nat]
    BY <1>10 DEF ReceiveAck, TypeOK
  <2> QED BY <1>10, <2>1, <2>2 DEF ReceiveAck, TypeOK, NoFault, tabVars, roomVars, openVars, ckVars
<1>11. ASSUME NEW c \in Clients, ServerUpdate(c) PROVE TypeOK'
  <2>1. \A d \in Clients : down'[d] \in Seq(Frame)
    <3> SUFFICES ASSUME NEW d \in Clients PROVE down'[d] \in Seq(Frame)
      OBVIOUS
    <3>1. down[d] \in Seq(Frame)
      BY DEF TypeOK
    <3>2. PICK f \in Frame : down'[d] = Append(down[d], f) \/ down'[d] = down[d]
      BY <1>11, ServerFrames
    <3> QED BY <3>1, <3>2
  <2>2. down' \in [Clients -> Seq(Frame)]
    <3>1. down' = [d \in Clients |-> down'[d]]
      BY <1>11 DEF ServerUpdate
    <3> QED BY <2>1, <3>1 DEF Frame
  <2>3. text' \in Content /\ up' \in [Clients -> Seq(Content)]
    <3>1. Head(up[c]) \in Content /\ Tail(up[c]) \in Seq(Content)
      BY <1>11, ServerFrames
    <3> QED BY <1>0, <1>11, <3>1 DEF ServerUpdate, TypeOK
  <2> QED BY <1>11, <2>2, <2>3 DEF ServerUpdate, TypeOK, NoFault, tabVars, openVars, ckVars
<1>12. ASSUME NEW c \in Clients, NEW e \in Edits, Type(c, e) PROVE TypeOK'
  <2>1. up' \in [Clients -> Seq(Content)] /\ unacked' \in [Clients -> Nat]
    BY <1>0, <1>12, <1>u DEF Type, TypeOK
  <2>2. doc' \in [Clients -> Content]
    BY <1>0, <1>12 DEF Type, TypeOK
  <2> QED BY <1>12, <2>1, <2>2 DEF Type, TypeOK, NoFault, roomVars, openVars, ckVars
<1>13. ASSUME Cool \/ cleanup_unused_rooms PROVE TypeOK'
  BY <1>0, <1>13 DEF Cool, cleanup_unused_rooms, Forget, TypeOK, NoFault, tabVars, sockVars, openVars, ckVars
<1>14. ASSUME CheckpointStep PROVE TypeOK'
  BY <1>0, <1>14, <1>f DEF CheckpointStep, CheckpointRead, CheckpointCommit, TypeOK, Fault, NoFault,
                  tabVars, sockVars, roomVars, openVars
<1>15. ASSUME Crash PROVE TypeOK'
  BY <1>0, <1>15, <1>c, <1>f DEF Crash, Stop, Forget, TypeOK, Fault, tabVars
<1>16. ASSUME Shutdown PROVE TypeOK'
  BY <1>0, <1>16, <1>c, <1>f DEF Shutdown, Stop, Forget, TypeOK, Fault, tabVars
<1>17. ASSUME UNCHANGED vars PROVE TypeOK'
  BY <1>17 DEF vars, TypeOK
<1> QED BY <1>1, <1>2, <1>3, <1>4, <1>5, <1>6, <1>7, <1>8, <1>9, <1>10, <1>11, <1>12, <1>13, <1>14,
           <1>15, <1>16, <1>17 DEF Next, ConnectionStep

\* The types of CollabRoom, of every reachable state
THEOREM TypeCorrect == Spec => []TypeOK
<1> QED BY TypeInit, TypeStep, PTL DEF Spec
-----------------------------------------------------------------------------
(* Connections *)

LEMMA InitInv == Init => IInv
<1> SUFFICES ASSUME Init PROVE IInv
  OBVIOUS
<1>1. TypeOK
  BY TypeInit
<1>2. LockInv /\ RoomInv
  BY CollabAssumption DEF Init, LockInv, RoomInv
<1>3. ASSUME NEW c \in Clients PROVE Connection(c)
  <2>1. sock[c] = "off" /\ Silent(c)
    BY DEF Init, Silent
  <2> QED BY <2>1, AckAtEmpty DEF Connection, Silent, Counted, Delivers, Sent
<1> QED BY <1>1, <1>2, <1>3 DEF IInv

\* A connection that a step leaves alone, with the room's text
LEMMA SameConnection ==
    ASSUME NEW c \in Clients, Connection(c), text' = text,
           sock'[c] = sock[c], synced'[c] = synced[c], unacked'[c] = unacked[c],
           up'[c] = up[c], down'[c] = down[c], doc'[c] = doc[c]
    PROVE  Connection(c)'
BY DEF Connection, Silent, Counted, Delivers, Sent

\* A socket that is not open
LEMMA SilentConnection ==
    ASSUME NEW c \in Clients, sock[c] # "open", Silent(c)
    PROVE  Connection(c)
BY AckAtEmpty DEF Connection, Silent, Counted, Delivers, Sent

\* attach, on a connection that nothing has been sent on
LEMMA AttachedConnection ==
    ASSUME NEW c \in Clients, Silent(c), NEW content \in Content, text' = content,
           down'[c] = <<FirstFrame(content)>>, synced'[c] = synced[c], unacked'[c] = unacked[c],
           up'[c] = up[c], sock'[c] = "open"
    PROVE  Connection(c)'
<1>1. FirstFrame(content) \in Frame /\ FirstFrame(content).op = "update"
      /\ FirstFrame(content).edits = content
  BY DEF FirstFrame, Frame
<1>2. down'[c] = Append(<<>>, FirstFrame(content)) /\ <<>> \in Seq(Frame)
  OBVIOUS
<1>3. Cardinality(AckAt(down'[c])) = 0
  <2>1. Cardinality(AckAt(Append(<<>>, FirstFrame(content)))) = Cardinality(AckAt(<<>>)) + 0
    BY <1>1, <1>2, AckAtAppend
  <2> QED BY <1>2, <2>1, AckAtEmpty
<1>4. Within(down'[c], text')
  BY <1>1 DEF Within
<1>5. Counted(c)'
  BY <1>3 DEF Counted, Silent
<1> QED BY <1>4, <1>5 DEF Connection, Delivers, Sent, Silent

\* Closing sockets silences them and leaves the others alone.
LEMMA ClosedConnections ==
    ASSUME TypeOK, NEW S, Closed(S), NEW c \in Clients, Connection(c),
           c \in S \/ (text' = text /\ doc'[c] = doc[c])
    PROVE  Connection(c)'
<1>1. CASE c \in S
  <2>1. sock'[c] # "open" /\ Silent(c)'
    BY <1>1 DEF Closed, Silent
  <2> QED BY <2>1, AckAtEmpty DEF Connection, Silent, Counted, Delivers, Sent
<1>2. CASE c \notin S
  <2>1. sock'[c] = sock[c] /\ unacked'[c] = unacked[c] /\ up'[c] = up[c] /\ down'[c] = down[c]
    BY <1>2 DEF Closed
  <2>2. synced'[c] = synced[c]
    BY <1>2 DEF Closed, TypeOK
  <2> QED BY <1>2, <2>1, <2>2, SameConnection
<1> QED BY <1>1, <1>2

\* sendUpdate counts what it sends, and what it sends is on its way.
LEMMA SendConnection ==
    ASSUME NEW c \in Clients, TypeOK, NEW u \in Content, SendUpdate(c, u)
    PROVE  /\ Len(up'[c]) = Len(up[c]) + 1
           /\ unacked'[c] = unacked[c] + 1
           /\ \A x : Carries(up'[c], x) <=> Carries(up[c], x) \/ x \in u
           /\ \A d \in Clients \ {c} : up'[d] = up[d] /\ unacked'[d] = unacked[d]
<1>1. up[c] \in Seq(Content)
  BY DEF TypeOK
<1>2. up'[c] = Append(up[c], u)
  BY DEF SendUpdate, TypeOK
<1>3. Len(up'[c]) = Len(up[c]) + 1
  BY <1>1, <1>2
<1>4. \A x : Carries(up'[c], x) <=> Carries(up[c], x) \/ x \in u
  BY <1>1, <1>2, CarriesAppend
<1>5. unacked'[c] = unacked[c] + 1
  BY DEF SendUpdate, TypeOK
<1>6. \A d \in Clients \ {c} : up'[d] = up[d] /\ unacked'[d] = unacked[d]
  BY DEF SendUpdate, TypeOK
<1> QED BY <1>3, <1>4, <1>5, <1>6

LEMMA TypeStepConnection ==
    ASSUME IInv, NEW c \in Clients, NEW e \in Edits, Type(c, e), NEW d \in Clients
    PROVE  Connection(d)'
<1>1. TypeOK /\ Connection(d) /\ Connection(c) /\ text' = text
      /\ sock' = sock /\ synced' = synced /\ down' = down
  BY DEF IInv, Type, roomVars
<1>2. doc'[c] = doc[c] \union {e} /\ \A a \in Clients \ {c} : doc'[a] = doc[a]
  BY <1>1 DEF Type, TypeOK
<1>3. CASE synced[c] /\ sock[c] = "open"
  <2>0. {e} \in Content /\ SendUpdate(c, {e})
    BY <1>3 DEF Type, Content
  <2>1. CASE d # c
    BY <1>1, <1>2, <2>0, <2>1, SendConnection, SameConnection
  <2>2. CASE d = c
    <3>1. Counted(c)'
      <4>1. Cardinality(AckAt(down[c])) \in Nat /\ Len(up[c]) \in Nat /\ unacked[c] \in Nat
        BY <1>1, AckAtFinite DEF TypeOK
      <4> QED BY <1>1, <2>0, <4>1, SendConnection DEF Connection, Counted
    <3>2. Sent(c)'
      BY <1>1, <1>2, <2>0, SendConnection DEF Connection, Sent
    <3> QED BY <1>1, <1>3, <2>2, <3>1, <3>2 DEF Connection, Delivers
  <2> QED BY <2>1, <2>2
<1>4. CASE ~(synced[c] /\ sock[c] = "open")
  <2>1. up' = up /\ unacked' = unacked
    BY <1>4 DEF Type
  <2>2. CASE d # c
    BY <1>1, <1>2, <2>1, <2>2, SameConnection
  <2>3. CASE d = c
    <3>1. ~synced[c]
      BY <1>1, <1>4 DEF Connection, Silent
    <3> QED BY <1>1, <2>1, <2>3, <3>1 DEF Connection, Silent, Counted, Delivers, Sent
  <2> QED BY <2>2, <2>3
<1> QED BY <1>3, <1>4

\* The first frame's answer holds whatever the room has not.
LEMMA ReceiveUpdateConnection ==
    ASSUME IInv, NEW c \in Clients, ReceiveUpdate(c), NEW d \in Clients
    PROVE  Connection(d)'
<1> DEFINE u == Head(down[c]).edits
<1>0. down[c] # <<>> /\ Head(down[c]).op = "update"
  BY DEF ReceiveUpdate
<1>1. TypeOK /\ Connection(d) /\ Connection(c) /\ text' = text /\ sock' = sock
  BY DEF IInv, ReceiveUpdate, roomVars
<1>2. doc'[c] = doc[c] \union u /\ \A a \in Clients \ {c} : doc'[a] = doc[a]
  BY <1>1 DEF ReceiveUpdate, TypeOK
<1>3. synced'[c] /\ \A a \in Clients \ {c} : synced'[a] = synced[a]
  BY <1>1 DEF ReceiveUpdate, TypeOK
<1>4. down'[c] = Tail(down[c]) /\ \A a \in Clients \ {c} : down'[a] = down[a]
  BY <1>1 DEF ReceiveUpdate, TypeOK
<1>5. down[c] \in Seq(Frame) /\ up[c] \in Seq(Content) /\ unacked[c] \in Nat
  BY <1>1 DEF TypeOK
<1>6. Head(down[c]) \in Frame /\ Tail(down[c]) \in Seq(Frame)
  BY <1>0, <1>5
<1>7. u \in Content /\ Missing(c, u) \in Content
  <2>1. u \in Content /\ doc[c] \in Content
    BY <1>1, <1>6 DEF Frame, TypeOK
  <2> QED BY <2>1 DEF Missing, Content
<1>8. sock[c] = "open"
  BY <1>0, <1>1 DEF Connection, Silent
<1>9. Within(Tail(down[c]), text) /\ u \subseteq text
  BY <1>0, <1>1, <1>5, <1>8, WithinTail DEF Connection, Delivers
<1>10. Cardinality(AckAt(down'[c])) = Cardinality(AckAt(down[c])) /\ Cardinality(AckAt(down[c])) \in Nat
  <2>1. Cardinality(AckAt(down[c])) = Cardinality(AckAt(Tail(down[c]))) + 0
    BY <1>0, <1>5, AckAtTail
  <2>2. Cardinality(AckAt(down[c])) \in Nat /\ Cardinality(AckAt(Tail(down[c]))) \in Nat
    BY <1>5, <1>6, AckAtFinite
  <2> QED BY <1>4, <2>1, <2>2
<1> HIDE DEF u
<1>11. CASE ~synced[c] /\ Missing(c, u) # {}
  <2>0. SendUpdate(c, Missing(c, u))
    BY <1>11 DEF ReceiveUpdate, u
  <2>1. CASE d # c
    BY <1>1, <1>2, <1>3, <1>4, <1>7, <2>0, <2>1, SendConnection, SameConnection
  <2>2. CASE d = c
    <3>1. Counted(c)'
      <4>1. Len(up[c]) \in Nat
        BY <1>5
      <4> QED BY <1>1, <1>5, <1>7, <1>10, <2>0, <4>1, SendConnection DEF Connection, Counted
    <3>2. Sent(c)'
      BY <1>1, <1>2, <1>7, <1>9, <2>0, SendConnection DEF Sent, Missing
    <3> QED BY <1>1, <1>4, <1>8, <1>9, <2>2, <3>1, <3>2 DEF Connection, Delivers
  <2> QED BY <2>1, <2>2
<1>12. CASE ~(~synced[c] /\ Missing(c, u) # {})
  <2>0. up' = up /\ unacked' = unacked
    BY <1>12 DEF ReceiveUpdate, u
  <2>1. CASE d # c
    BY <1>1, <1>2, <1>3, <1>4, <2>0, <2>1, SameConnection
  <2>2. CASE d = c
    <3>1. Sent(c)'
      <4>1. \A x \in doc[c] : x \in text \/ Carries(up[c], x)
        BY <1>1, <1>9, <1>12 DEF Connection, Sent, Missing
      <4> QED BY <4>1, <1>1, <1>2, <1>9, <2>0 DEF Sent
    <3>2. Counted(c)'
      BY <1>1, <1>10, <2>0 DEF Connection, Counted
    <3> QED BY <1>1, <1>4, <1>8, <1>9, <2>2, <3>1, <3>2 DEF Connection, Delivers
  <2> QED BY <2>1, <2>2
<1> QED BY <1>11, <1>12

LEMMA ReceiveAckConnection ==
    ASSUME IInv, NEW c \in Clients, ReceiveAck(c), NEW d \in Clients
    PROVE  Connection(d)'
<1>0. down[c] # <<>> /\ Head(down[c]).op = "ack"
  BY DEF ReceiveAck
<1>1. TypeOK /\ Connection(d) /\ Connection(c) /\ text' = text /\ sock' = sock /\ up' = up
      /\ synced' = synced /\ doc' = doc
  BY DEF IInv, ReceiveAck, roomVars, tabVars
<1>2. down'[c] = Tail(down[c]) /\ \A a \in Clients \ {c} : down'[a] = down[a]
  BY <1>1 DEF ReceiveAck, TypeOK
<1>3. /\ unacked'[c] = IF unacked[c] > 0 THEN unacked[c] - 1 ELSE 0
      /\ \A a \in Clients \ {c} : unacked'[a] = unacked[a]
  BY <1>1 DEF ReceiveAck, TypeOK
<1>4. down[c] \in Seq(Frame) /\ Len(up[c]) \in Nat /\ unacked[c] \in Nat
  BY <1>1 DEF TypeOK
<1>5. Tail(down[c]) \in Seq(Frame)
  BY <1>0, <1>4
<1>6. Cardinality(AckAt(down[c])) = Cardinality(AckAt(Tail(down[c]))) + 1
      /\ Cardinality(AckAt(Tail(down[c]))) \in Nat
  BY <1>0, <1>4, <1>5, AckAtTail, AckAtFinite
<1>7. CASE d # c
  BY <1>1, <1>2, <1>3, <1>7, SameConnection
<1>8. CASE d = c
  <2>1. sock[c] = "open"
    BY <1>0, <1>1 DEF Connection, Silent
  <2>2. Counted(c)'
    BY <1>1, <1>2, <1>3, <1>4, <1>6 DEF Connection, Counted
  <2>3. Within(Tail(down[c]), text)
    BY <1>0, <1>1, <1>4, <2>1, WithinTail DEF Connection, Delivers
  <2> QED BY <1>1, <1>2, <1>8, <2>1, <2>2, <2>3 DEF Connection, Delivers, Sent
<1> QED BY <1>7, <1>8

LEMMA ServerUpdateConnection ==
    ASSUME IInv, NEW c \in Clients, ServerUpdate(c), NEW d \in Clients
    PROVE  Connection(d)'
<1> DEFINE ack  == [op |-> "ack", edits |-> {}]
           news == [op |-> "update", edits |-> Head(up[c])]
<1>1. TypeOK /\ Connection(d) /\ sock' = sock /\ synced' = synced /\ doc' = doc /\ unacked' = unacked
      /\ sock[c] = "open" /\ up[c] # <<>> /\ text' = text \union Head(up[c])
  BY DEF IInv, ServerUpdate, tabVars
<1>2. ack \in Frame /\ news \in Frame
      /\ down'[d] = (IF d = c THEN Append(down[d], ack)
                     ELSE IF sock[d] = "open" THEN Append(down[d], news) ELSE down[d])
  BY <1>1, ServerFrames
<1>3. up'[c] = Tail(up[c]) /\ \A a \in Clients \ {c} : up'[a] = up[a]
  BY <1>1 DEF ServerUpdate, TypeOK
<1>4. down[d] \in Seq(Frame) /\ up[c] \in Seq(Content) /\ unacked[d] \in Nat
  BY <1>1 DEF TypeOK
<1>5. Len(up[c]) \in Nat /\ Len(Tail(up[c])) = Len(up[c]) - 1 /\ Cardinality(AckAt(down[d])) \in Nat
  BY <1>1, <1>4, AckAtFinite
<1>6. ack.op = "ack" /\ ack.edits = {} /\ news.op = "update" /\ news.edits = Head(up[c])
  OBVIOUS
<1> HIDE DEF ack, news
<1>7. Delivers(d)'
  <2> SUFFICES ASSUME sock[d] = "open" PROVE Within(down'[d], text')
    BY <1>1 DEF Delivers
  <2>1. Within(down[d], text')
    BY <1>1, WithinMore DEF Connection, Delivers
  <2>2. ack.edits \subseteq text' /\ news.edits \subseteq text'
    BY <1>1, <1>6
  <2> QED BY <1>2, <1>4, <2>1, <2>2, WithinAppend
<1>8. Sent(d)'
  <2> SUFFICES ASSUME synced[d], NEW x \in doc[d] PROVE x \in text' \/ Carries(up'[d], x)
    BY <1>1 DEF Sent
  <2>1. x \in text \/ Carries(up[d], x)
    BY <1>1 DEF Connection, Sent
  <2>2. CASE d # c
    BY <1>1, <1>3, <2>1, <2>2
  <2>3. CASE d = c
    <3>1. Carries(up[c], x) => Carries(Tail(up[c]), x) \/ x \in Head(up[c])
      BY <1>1, <1>4, CarriesTail
    <3> QED BY <1>1, <1>3, <2>1, <2>3, <3>1
  <2> QED BY <2>2, <2>3
<1>9. CASE d = c
  <2>1. Cardinality(AckAt(down'[d])) = Cardinality(AckAt(down[d])) + 1
    <3>1. Cardinality(AckAt(Append(down[d], ack))) = Cardinality(AckAt(down[d])) + 1
      BY <1>2, <1>4, <1>6, AckAtAppend
    <3> QED BY <1>2, <1>9, <3>1
  <2>2. Counted(d)'
    <3>1. unacked[d] = Len(up[c]) + Cardinality(AckAt(down[d]))
      BY <1>1, <1>9 DEF Connection, Counted
    <3>2. Len(up'[d]) = Len(up[c]) - 1 /\ unacked'[d] = unacked[d]
      BY <1>1, <1>3, <1>5, <1>9
    <3> QED BY <1>4, <1>5, <2>1, <3>1, <3>2 DEF Counted
  <2> QED BY <1>1, <1>7, <1>8, <1>9, <2>2 DEF Connection
<1>10. CASE d # c /\ sock[d] = "open"
  <2>1. Cardinality(AckAt(down'[d])) = Cardinality(AckAt(down[d]))
    BY <1>2, <1>4, <1>5, <1>6, <1>10, AckAtAppend
  <2>2. Counted(d)'
    BY <1>1, <1>3, <1>10, <2>1 DEF Connection, Counted
  <2> QED BY <1>1, <1>7, <1>8, <1>10, <2>2 DEF Connection
<1>11. CASE d # c /\ sock[d] # "open"
  <2>1. Silent(d)'
    BY <1>1, <1>2, <1>3, <1>11 DEF Connection, Silent
  <2> QED BY <1>1, <1>11, <2>1, AckAtEmpty DEF Connection, Silent, Counted, Delivers, Sent
<1> QED BY <1>9, <1>10, <1>11
-----------------------------------------------------------------------------
(* The room, its lock, and the connections, step by step *)

LEMMA InvStep == IInv /\ [Next]_vars => IInv'
<1> SUFFICES ASSUME IInv, [Next]_vars PROVE IInv'
  OBVIOUS
<1>t. TypeOK /\ TypeOK'
  BY TypeStep DEF IInv
<1>i. LockInv /\ RoomInv /\ \A d \in Clients : Connection(d)
  BY DEF IInv
<1> USE CollabAssumption
<1>s. ASSUME sock' = sock, synced' = synced, unacked' = unacked, up' = up, down' = down,
             doc' = doc, text' = text
      PROVE  \A d \in Clients : Connection(d)'
  BY <1>i, <1>s, SameConnection
<1>1. ASSUME NEW c \in Clients, OpenTab(c) PROVE IInv'
  <2>1. LockInv' /\ RoomInv'
    BY <1>1, <1>i DEF OpenTab, LockInv, RoomInv, sockVars, roomVars, openVars
  <2> QED BY <1>1, <1>s, <1>t, <2>1 DEF OpenTab, IInv, sockVars, roomVars
<1>2. ASSUME NEW c \in Clients, CloseTab(c) PROVE IInv'
  <2>0. Closed({c}) /\ UNCHANGED <<registered, text, hydrated, warm, lock>> /\ sock[c] \in {"off", "open"}
        /\ \A d \in Clients \ {c} : doc'[d] = doc[d]
    BY <1>2, <1>t DEF CloseTab, roomVars, openVars, TypeOK
  <2>1. \A d \in Clients : sock'[d] = IF d = c THEN "off" ELSE sock[d]
    BY <2>0 DEF Closed
  <2>2. LockInv' /\ RoomInv'
    BY <1>i, <2>0, <2>1 DEF LockInv, RoomInv
  <2>3. ASSUME NEW d \in Clients PROVE Connection(d)'
    <3>1. d \in {c} \/ (text' = text /\ doc'[d] = doc[d])
      BY <2>0
    <3> QED BY <1>t, <1>i, <2>0, <3>1, ClosedConnections
  <2> QED BY <1>t, <2>2, <2>3 DEF IInv
<1>3. ASSUME NEW c \in Clients, Drop(c) PROVE IInv'
  <2>0. Closed({c}) /\ UNCHANGED <<doc, registered, text, hydrated, warm, lock>> /\ sock[c] = "open"
    BY <1>3 DEF Drop, tabVars, roomVars, openVars
  <2>1. \A d \in Clients : sock'[d] = IF d = c THEN "off" ELSE sock[d]
    BY <2>0 DEF Closed
  <2>2. LockInv' /\ RoomInv'
    BY <1>i, <2>0, <2>1 DEF LockInv, RoomInv
  <2>3. \A d \in Clients : Connection(d)'
    BY <1>t, <1>i, <2>0, ClosedConnections
  <2> QED BY <1>t, <2>2, <2>3 DEF IInv
<1>4. ASSUME NEW c \in Clients, OpenFails(c) PROVE IInv'
  <2>0. Closed({c}) /\ UNCHANGED <<doc, registered, text, hydrated, warm>> /\ sock[c] = "select"
        /\ lock' = Nobody
    BY <1>4 DEF OpenFails, tabVars, roomVars
  <2>1. \A d \in Clients : sock'[d] = IF d = c THEN "off" ELSE sock[d]
    BY <2>0 DEF Closed
  <2>2. LockInv' /\ RoomInv'
    BY <1>i, <2>0, <2>1 DEF LockInv, RoomInv
  <2>3. \A d \in Clients : Connection(d)'
    BY <1>t, <1>i, <2>0, ClosedConnections
  <2> QED BY <1>t, <2>2, <2>3 DEF IInv
<1>5. ASSUME NEW c \in Clients, Connect(c) PROVE IInv'
  <2>0. UNCHANGED <<doc, synced, unacked, up, down, text, hydrated, lock>> /\ registered' /\ warm'
        /\ sock[c] = "off"
    BY <1>5 DEF Connect, tabVars, openVars
  <2>1. \A d \in Clients : sock'[d] = IF d = c THEN "lock" ELSE sock[d]
    BY <1>5, <1>t DEF Connect, TypeOK
  <2>2. LockInv' /\ RoomInv'
    BY <1>i, <2>0, <2>1 DEF LockInv, RoomInv
  <2>3. ASSUME NEW d \in Clients PROVE Connection(d)'
    <3>1. CASE d = c
      <4>1. Silent(c)' /\ sock'[c] # "open"
        BY <1>i, <2>0, <2>1 DEF Connection, Silent
      <4> QED BY <3>1, <4>1, AckAtEmpty DEF Connection, Silent, Counted, Delivers, Sent
    <3>2. CASE d # c
      BY <1>i, <2>0, <2>1, <3>2, SameConnection
    <3> QED BY <3>1, <3>2
  <2> QED BY <1>t, <2>2, <2>3 DEF IInv
<1>6. ASSUME NEW c \in Clients, OpenLocked(c) PROVE IInv'
  <2>0. UNCHANGED <<doc, synced, unacked, up, registered, text, hydrated, warm>> /\ sock[c] = "lock"
        /\ lock = Nobody
    BY <1>6 DEF OpenLocked, tabVars, roomVars
  <2>a. Silent(c) /\ text \in Content
    BY <1>i, <1>t, <2>0 DEF Connection, TypeOK
  <2>1. CASE hydrated /\ Attach(c, text) /\ lock' = lock
    <3>1. \A d \in Clients : sock'[d] = IF d = c THEN "open" ELSE sock[d]
      BY <1>t, <2>1 DEF Attach, TypeOK
    <3>2. \A d \in Clients : down'[d] = IF d = c THEN <<FirstFrame(text)>> ELSE down[d]
      BY <1>t, <2>1 DEF Attach, TypeOK
    <3>3. LockInv' /\ RoomInv'
      BY <1>i, <2>0, <2>1, <3>1 DEF LockInv, RoomInv
    <3>4. ASSUME NEW d \in Clients PROVE Connection(d)'
      <4>1. CASE d = c
        BY <2>0, <2>a, <3>1, <3>2, <4>1, AttachedConnection
      <4>2. CASE d # c
        BY <1>i, <2>0, <3>1, <3>2, <4>2, SameConnection
      <4> QED BY <4>1, <4>2
    <3> QED BY <1>t, <3>3, <3>4 DEF IInv
  <2>2. CASE ~hydrated /\ lock' = c /\ sock' = [sock EXCEPT ![c] = "select"] /\ down' = down
    <3>1. \A d \in Clients : sock'[d] = IF d = c THEN "select" ELSE sock[d]
      BY <1>t, <2>2 DEF TypeOK
    <3>2. \A d \in Clients : sock[d] \notin {"select", "load"}
      BY <1>i, <2>0 DEF LockInv
    <3>3. LockInv' /\ RoomInv'
      BY <1>i, <2>0, <2>2, <3>1, <3>2 DEF LockInv, RoomInv
    <3>4. ASSUME NEW d \in Clients PROVE Connection(d)'
      <4>1. CASE d = c
        <5>1. Silent(c)' /\ sock'[c] # "open"
          BY <2>0, <2>2, <2>a, <3>1 DEF Silent
        <5> QED BY <4>1, <5>1, AckAtEmpty DEF Connection, Silent, Counted, Delivers, Sent
      <4>2. CASE d # c
        BY <1>i, <2>0, <2>2, <3>1, <4>2, SameConnection
      <4> QED BY <4>1, <4>2
    <3> QED BY <1>t, <3>3, <3>4 DEF IInv
  <2> QED BY <1>6, <2>1, <2>2 DEF OpenLocked
<1>7. ASSUME NEW c \in Clients, OpenSelect(c) PROVE IInv'
  <2>0. UNCHANGED <<doc, synced, unacked, up, down, registered, text, hydrated, warm, lock>>
        /\ sock[c] = "select"
    BY <1>7 DEF OpenSelect, tabVars, roomVars
  <2>1. \A d \in Clients : sock'[d] = IF d = c THEN "load" ELSE sock[d]
    BY <1>7, <1>t DEF OpenSelect, TypeOK
  <2>2. LockInv' /\ RoomInv'
    BY <1>i, <2>0, <2>1 DEF LockInv, RoomInv
  <2>3. ASSUME NEW d \in Clients PROVE Connection(d)'
    <3>1. CASE d = c
      <4>1. Silent(c)' /\ sock'[c] # "open"
        BY <1>i, <2>0, <2>1 DEF Connection, Silent
      <4> QED BY <3>1, <4>1, AckAtEmpty DEF Connection, Silent, Counted, Delivers, Sent
    <3>2. CASE d # c
      BY <1>i, <2>0, <2>1, <3>2, SameConnection
    <3> QED BY <3>1, <3>2
  <2> QED BY <1>t, <2>2, <2>3 DEF IInv
<1>8. ASSUME NEW c \in Clients, OpenLoad(c) PROVE IInv'
  <2>0. /\ UNCHANGED <<doc, synced, unacked, up, registered, warm>>
        /\ sock[c] = "load" /\ text' = loaded /\ hydrated' /\ lock' = Nobody /\ Attach(c, loaded)
    BY <1>8 DEF OpenLoad, tabVars
  <2>1. \A d \in Clients : sock'[d] = IF d = c THEN "open" ELSE sock[d]
    BY <1>t, <2>0 DEF Attach, TypeOK
  <2>2. \A d \in Clients : down'[d] = IF d = c THEN <<FirstFrame(loaded)>> ELSE down[d]
    BY <1>t, <2>0 DEF Attach, TypeOK
  <2>3. lock = c /\ ~hydrated /\ \A d \in Clients : sock[d] # "open"
    BY <1>i, <2>0 DEF LockInv, RoomInv
  <2>4. LockInv' /\ RoomInv'
    BY <1>i, <2>0, <2>1, <2>3 DEF LockInv, RoomInv
  <2>5. ASSUME NEW d \in Clients PROVE Connection(d)'
    <3>0. Silent(d) /\ loaded \in Content
      BY <1>i, <1>t, <2>3 DEF Connection, TypeOK
    <3>1. CASE d = c
      BY <2>0, <2>1, <2>2, <3>0, <3>1, AttachedConnection
    <3>2. CASE d # c
      <4>1. Silent(d)' /\ sock'[d] # "open"
        BY <2>0, <2>1, <2>2, <2>3, <3>0, <3>2 DEF Silent
      <4> QED BY <4>1, AckAtEmpty DEF Connection, Silent, Counted, Delivers, Sent
    <3> QED BY <3>1, <3>2
  <2> QED BY <1>t, <2>4, <2>5 DEF IInv
<1>9. ASSUME NEW c \in Clients, ReceiveUpdate(c) \/ ReceiveAck(c) \/ ServerUpdate(c) PROVE IInv'
  <2>1. UNCHANGED <<sock, registered, hydrated, warm, lock>>
    BY <1>9 DEF ReceiveUpdate, ReceiveAck, ServerUpdate, roomVars, openVars
  <2>2. LockInv' /\ RoomInv'
    BY <1>i, <2>1 DEF LockInv, RoomInv
  <2> QED BY <1>9, <1>t, <2>2, ReceiveUpdateConnection, ReceiveAckConnection, ServerUpdateConnection DEF IInv
<1>10. ASSUME NEW c \in Clients, NEW e \in Edits, Type(c, e) PROVE IInv'
  <2>1. UNCHANGED <<sock, registered, hydrated, warm, lock>>
    BY <1>10 DEF Type, roomVars, openVars
  <2>2. LockInv' /\ RoomInv'
    BY <1>i, <2>1 DEF LockInv, RoomInv
  <2> QED BY <1>10, <1>t, <2>2, TypeStepConnection DEF IInv
<1>11. ASSUME Cool PROVE IInv'
  <2>1. LockInv' /\ RoomInv'
    BY <1>11, <1>i DEF Cool, LockInv, RoomInv, sockVars, openVars
  <2> QED BY <1>11, <1>s, <1>t, <2>1 DEF Cool, IInv, sockVars, tabVars
<1>12. ASSUME cleanup_unused_rooms PROVE IInv'
  <2>0. UNCHANGED <<sock, synced, unacked, up, down, doc, lock>> /\ ~hydrated' /\ ~warm
        /\ \A d \in Clients : sock[d] # "open"
    BY <1>12 DEF cleanup_unused_rooms, Unused, Attached, Forget, sockVars, tabVars, openVars
  <2>1. LockInv' /\ RoomInv'
    BY <1>i, <2>0 DEF LockInv, RoomInv
  <2>2. ASSUME NEW d \in Clients PROVE Connection(d)'
    <3>1. Silent(d)' /\ sock'[d] # "open"
      BY <1>i, <2>0 DEF Connection, Silent
    <3> QED BY <3>1, AckAtEmpty DEF Connection, Silent, Counted, Delivers, Sent
  <2> QED BY <1>t, <2>1, <2>2 DEF IInv
<1>13. ASSUME CheckpointStep PROVE IInv'
  <2>0. UNCHANGED <<sock, synced, unacked, up, down, doc, text, registered, hydrated, warm, lock>>
    BY <1>13 DEF CheckpointStep, CheckpointRead, CheckpointCommit, tabVars, sockVars, roomVars, openVars
  <2>1. LockInv' /\ RoomInv'
    BY <1>i, <2>0 DEF LockInv, RoomInv
  <2> QED BY <1>s, <1>t, <2>0, <2>1 DEF IInv
<1>14. ASSUME Crash \/ Shutdown PROVE IInv'
  <2>0. Closed(Clients) /\ lock' = Nobody
    BY <1>14 DEF Crash, Shutdown, Stop
  <2>1. \A d \in Clients : sock'[d] = "off"
    BY <2>0 DEF Closed
  <2>2. LockInv' /\ RoomInv'
    BY <2>0, <2>1 DEF LockInv, RoomInv
  <2>3. ASSUME NEW d \in Clients PROVE Connection(d)'
    BY <1>t, <1>i, <2>0, ClosedConnections
  <2> QED BY <1>t, <2>2, <2>3 DEF IInv
<1>15. ASSUME UNCHANGED vars PROVE IInv'
  <2>1. LockInv' /\ RoomInv'
    BY <1>i, <1>15 DEF vars, LockInv, RoomInv
  <2> QED BY <1>15, <1>s, <1>t, <2>1 DEF vars, IInv
<1> QED BY <1>1, <1>2, <1>3, <1>4, <1>5, <1>6, <1>7, <1>8, <1>9, <1>10, <1>11, <1>12, <1>13, <1>14, <1>15
        DEF Next, ConnectionStep

\* A tab that shows "synced" has no frame on its way and no ack missing.
LEMMA InvImplies == IInv => SyncedMeansServerHas /\ AttachedRoomIsLoaded
<1> SUFFICES ASSUME IInv PROVE SyncedMeansServerHas /\ AttachedRoomIsLoaded
  OBVIOUS
<1>1. AttachedRoomIsLoaded
  BY DEF IInv, RoomInv, AttachedRoomIsLoaded, Attached
<1>2. ASSUME NEW c \in Clients, StatusSynced(c) PROVE doc[c] \subseteq text
  <2>1. Connection(c) /\ synced[c] /\ unacked[c] = 0 /\ down[c] \in Seq(Frame) /\ up[c] \in Seq(Content)
    BY <1>2 DEF IInv, StatusSynced, TypeOK
  <2>2. Cardinality(AckAt(down[c])) \in Nat /\ Len(up[c]) \in Nat
    BY <2>1, AckAtFinite
  <2>3. Len(up[c]) = 0
    BY <2>1, <2>2 DEF Connection, Counted
  <2> QED BY <2>1, <2>3 DEF Connection, Sent, Carries
<1> QED BY <1>1, <1>2 DEF SyncedMeansServerHas

\* connectCollab's "synced" (ws.ts) is true of the room, whatever connections are
\* lost, whatever faults hit the backend: the server has everything the tab has.
THEOREM SyncedHolds == Spec => []SyncedMeansServerHas
<1> QED BY InitInv, InvStep, InvImplies, PTL DEF Spec

\* open_room and cleanup_unused_rooms: a room with clients is registered and loaded.
THEOREM AttachedHolds == Spec => []AttachedRoomIsLoaded
<1> QED BY InitInv, InvStep, InvImplies, PTL DEF Spec
=============================================================================
