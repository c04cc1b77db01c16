-------------------------- MODULE TallyServerProofs --------------------------
(***************************************************************************)
(* The tally server for any number of lights, connections, checkboxes and  *)
(* names: every variable keeps its type, no lookup misses, no two ids      *)
(* share a connection, no heartbeat chain is dropped or doubled, and the   *)
(* server implements TallyRegistry; then what holds until a light is       *)
(* renamed.                                                                *)
(***************************************************************************)
EXTENDS TallyServer, CheckboxStatesProofs, WellFoundedInduction, TLAPS

(* What ranges over the connections and the ids.                            *)
LEMMA Numbers ==
  /\ MaxConn \in Nat \ {0}
  /\ Conns = 1 .. MaxConn /\ Ids = 1 .. MaxConn
  /\ NoConn = 0 /\ NoId = 0 /\ NoConn \notin Conns /\ NoId \notin Ids
  /\ 0 \in States /\ {NoName, Junk} \subseteq Names
  BY BoundsAssumption, StatesAssumption, NamesAssumption
     DEF Conns, Ids, NoConn, NoId, States

(* sendSyncMessage keeps the requests in transit typed.                     *)
LEMMA SentType ==
  ASSUME NEW ib \in [Conns -> Seq(Request)], NEW c, NEW r \in Request
  PROVE  Sent(ib, c, r) \in [Conns -> Seq(Request)]
<1>1. \A x \in Conns : Append(ib[x], r) \in Seq(Request)
  OBVIOUS
<1>2. [ib EXCEPT ![c] = Append(@, r)] \in [Conns -> Seq(Request)]
  BY <1>1
<1>3. QED
  BY <1>2 DEF Sent

(* The requests the server sends are requests.                              *)
LEMMA AskType ==
  ASSUME NEW k \in {"2", "3", "4", "5", "h"}, NEW n \in Names
  PROVE  Ask(k, n) \in Request
  BY DEF Ask, Request

(* The heartbeat request.                                                   *)
LEMMA BeatType ==
  ASSUME NEW ib \in [Conns -> Seq(Request)], NEW c
  PROVE  Beat(ib, c) \in [Conns -> Seq(Request)]
  BY SentType, AskType, Numbers DEF Beat

(* ReadUntilSync on a connection leaves lines in the buffer and returns a  *)
(* line, or nothing.                                                       *)
LEMMA ReadType ==
  ASSUME NetTypeOK, ServerTypeOK, NEW c \in Conns, NEW rd \in Reads, Consume(rd, c)
  PROVE  /\ readBuffer' \in Seq(Line)
         /\ outbox' \in [Conns -> Seq(Line)]
         /\ Returned(rd, c) \in Line \cup {NoLine}
         /\ NameIn(Returned(rd, c)) \in Names
<1>1. Filled(rd, c) \in Seq(Line)
  BY DEF Filled, NetTypeOK, ServerTypeOK
<1>2. Left(rd, c) \in Seq(Line)
  BY <1>1 DEF Left
<1>3. Returned(rd, c) \in Line \cup {NoLine}
  BY <1>1 DEF Returned
<1>4. <<>> \in Seq(Line)
  OBVIOUS
<1>5. outbox' \in [Conns -> Seq(Line)]
  BY <1>4 DEF Consume, NetTypeOK
<1>6. \A l \in Line \cup {NoLine} : NameIn(l) \in Names
  BY Numbers DEF NameIn, Line, NoLine
<1>7. QED
  BY <1>2, <1>3, <1>5, <1>6 DEF Consume

(* Where a read starts.                                                     *)
LEMMA StartReadType == StartRead \in Reads /\ StartRead' \in Reads
  BY DEF StartRead, Reads

(* Showing a state on a light.                                              *)
LEMMA ShowType ==
  ASSUME NEW sh \in [Conns -> States \cup {Dark}], NEW id, NEW s \in States
  PROVE  Show(sh, id, s) \in [Conns -> States \cup {Dark}]
  BY DEF Show

(* The first box of a set of boxes is one of them.                          *)
LEMMA FirstType ==
  ASSUME NEW S \in SUBSET Boxes, S # {}
  PROVE  First(S) \in S
<1> DEFINE R == {p \in Nat \X Nat : p[1] < p[2]}
<1>1. S \subseteq Nat
  BY BoxesAssumption DEF Boxes
<1>2. IsWellFoundedOn(R, Nat)
  <2>1. OpToRel(<, Nat) = R
    BY Zenon DEF OpToRel
  <2>2. QED
    BY <2>1, NatLessThanWellFounded, Zenon
<1>3. PICK b \in S : \A y \in S : ~ (<<y, b>> \in R)
  <2> HIDE DEF R
  <2>1. QED
    BY <1>1, <1>2, WFMin, Zenon
<1>4. ASSUME NEW y \in S PROVE b <= y
  <2>1. <<y, b>> \in Nat \X Nat
    BY <1>1
  <2>2. ~ (<<y, b>>[1] < <<y, b>>[2])
    BY <1>3, <2>1, Zenon
  <2>3. y \in Nat /\ b \in Nat
    BY <1>1
  <2>4. QED
    BY <2>2, <2>3
<1>5. QED
  BY <1>4 DEF First

-----------------------------------------------------------------------------
(* A step that leaves the registry, the heartbeats and the locals of the   *)
(* two threads alone keeps what the invariant says of them.                *)
idVars == <<nAcc, currentId, guyConn, armed, shut, ioPc, ioConn, ioId, ioBox,
            died, uiPc, uiId, uiBox, boxId, popup.id>>

LEMMA SameIds ==
  ASSUME TallyInv, TypeOK', UNCHANGED idVars, nConn <= nConn'
  PROVE  TallyInv'
<1>1. Registered' = Registered /\ InUse' = InUse
  BY Zenon DEF Registered, InUse, idVars
<1>2. CountsInv'
  BY DEF TallyInv, CountsInv, idVars, TypeOK, NetTypeOK, ServerTypeOK
<1>3. IoInv'
  BY <1>1, Zenon DEF TallyInv, IoInv, idVars
<1>4. UiInv' /\ RegistryInv' /\ LookupsSafe' /\ OneIdPerConnection'
  BY <1>1, Zenon DEF TallyInv, UiInv, RegistryInv, LookupsSafe, OneIdPerConnection, idVars
<1>5. Watched'
  BY <1>1, Zenon DEF TallyInv, Watched, BeingBeaten, idVars
<1>6. QED
  BY <1>2, <1>3, <1>4, <1>5 DEF TallyInv

(* Variables a step leaves alone keep their types.                          *)
LEMMA SameTypes ==
  ASSUME TypeOK
  PROVE  /\ UNCHANGED netVars    => NetTypeOK'
         /\ UNCHANGED lightVars  => LightTypeOK'
         /\ UNCHANGED serverVars => ServerTypeOK'
         /\ UNCHANGED ioVars     => IoTypeOK'
         /\ UNCHANGED guiVars    => GuiTypeOK'
         /\ UNCHANGED uiVars     => UiTypeOK'
         /\ UNCHANGED counters   => CountersOK'
<1>1. UNCHANGED netVars => NetTypeOK'
  BY Zenon DEF TypeOK, NetTypeOK, netVars
<1>2. UNCHANGED lightVars => LightTypeOK'
  BY Zenon DEF TypeOK, LightTypeOK, lightVars
<1>3. UNCHANGED serverVars => ServerTypeOK'
  BY Zenon DEF TypeOK, ServerTypeOK, serverVars
<1>4. UNCHANGED ioVars => IoTypeOK'
  BY Zenon DEF TypeOK, IoTypeOK, ioVars
<1>5. UNCHANGED guiVars => GuiTypeOK'
  BY Zenon DEF TypeOK, GuiTypeOK, guiVars
<1>6. UNCHANGED uiVars => UiTypeOK'
  BY Zenon DEF TypeOK, UiTypeOK, uiVars
<1>7. UNCHANGED counters => CountersOK'
  BY Zenon DEF TypeOK, CountersOK, counters
<1>8. QED
  BY <1>1, <1>2, <1>3, <1>4, <1>5, <1>6, <1>7

(* The lights only move lines and names about.                              *)
LEMMA LightsPreserve ==
  ASSUME TallyInv, Lights
  PROVE  TallyInv'
<1>1. TypeOK
  BY DEF TallyInv
<1>2. ASSUME NEW d \in Devices, Connect(d) PROVE TallyInv'
  <2>1. NetTypeOK'
    BY <1>1, <1>2, Numbers DEF Connect, TypeOK, NetTypeOK
  <2>2. LightTypeOK'
    BY <1>1, <1>2, Numbers DEF Connect, TypeOK, NetTypeOK, LightTypeOK
  <2>3. ServerTypeOK' /\ IoTypeOK' /\ GuiTypeOK' /\ UiTypeOK' /\ CountersOK'
    BY <1>1, <1>2, SameTypes, Zenon DEF Connect
  <2>4. UNCHANGED idVars
    BY <1>2 DEF Connect, idVars, serverVars, ioVars, guiVars, uiVars
  <2>5. nConn <= nConn'
    BY <1>1, <1>2 DEF Connect, TypeOK, NetTypeOK
  <2>6. QED
    BY <2>1, <2>2, <2>3, <2>4, <2>5, SameIds DEF TypeOK
<1>3. ASSUME NEW d \in Devices, Answer(d) PROVE TallyInv'
  <2> DEFINE c == sock[d]
             r == Head(inbox[c])
  <2>1. c \in Conns /\ inbox[c] \in Seq(Request) /\ r \in Request
    BY <1>1, <1>3 DEF Answer, TypeOK, NetTypeOK, LightTypeOK
  <2>2. r.kind \in {"2", "3", "4", "5", "h"} /\ r.name \in Names /\ ramName[d] \in Names
    BY <1>1, <2>1 DEF Request, TypeOK, LightTypeOK
  <2>3. \A s \in Replies(d, r, c) : s \in Seq(Line)
    <3>1. Reply(d, r, c) \in Line
      BY <2>1, <2>2, Numbers DEF Reply, Line, Kinds
    <3>2. [from |-> c, kind |-> "beat", name |-> NoName] \in Line
      BY <2>1, NamesAssumption DEF Line, Kinds
    <3>3. <<>> \in Seq(Line) /\ \A l \in Line : <<l>> \in Seq(Line)
      OBVIOUS
    <3> HIDE DEF c, r
    <3>4. \A s \in CheckForEvents(c) : s \in Seq(Line)
      BY <3>2, <3>3, Zenon DEF CheckForEvents
    <3> QED  BY <3>1, <3>3, <3>4, Zenon DEF Replies
  <2> HIDE DEF c, r
  <2>4. NetTypeOK'
    <3>1. inbox' \in [Conns -> Seq(Request)]
      BY <1>1, <1>3, <2>1 DEF Answer, TypeOK, NetTypeOK, c
    <3>2. PICK s \in Replies(d, r, c) :
            outbox' = IF shut[c] THEN outbox ELSE [outbox EXCEPT ![c] = @ \o s]
      BY <1>3 DEF Answer, c, r
    <3>3. \A x \in Conns : outbox[x] \o s \in Seq(Line)
      BY <1>1, <2>3 DEF TypeOK, NetTypeOK
    <3>5. outbox' \in [Conns -> Seq(Line)]
      BY <1>1, <2>1, <3>2, <3>3 DEF TypeOK, NetTypeOK
    <3>4. QED
      BY <1>1, <1>3, <3>1, <3>5, Zenon DEF Answer, TypeOK, NetTypeOK
  <2>5. LightTypeOK'
    BY <1>1, <1>3, <2>2 DEF Answer, TypeOK, LightTypeOK, c, r
  <2>6. ServerTypeOK' /\ IoTypeOK' /\ GuiTypeOK' /\ UiTypeOK' /\ CountersOK'
    BY <1>1, <1>3, SameTypes, Zenon DEF Answer
  <2>7. UNCHANGED idVars /\ nConn <= nConn'
    BY <1>1, <1>3 DEF Answer, idVars, serverVars, ioVars, guiVars, uiVars, TypeOK, NetTypeOK
  <2>8. QED
    BY <2>4, <2>5, <2>6, <2>7, SameIds DEF TypeOK
<1>4. ASSUME NEW d \in Devices, Close(d) PROVE TallyInv'
  <2>1. NetTypeOK' /\ LightTypeOK'
    BY <1>1, <1>4, Numbers DEF Close, TypeOK, NetTypeOK, LightTypeOK
  <2>2. CountersOK'
    BY <1>1, <1>4, BoundsAssumption DEF Close, TypeOK, CountersOK
  <2>3. ServerTypeOK' /\ IoTypeOK' /\ GuiTypeOK' /\ UiTypeOK'
    BY <1>1, <1>4, SameTypes, Zenon DEF Close
  <2>4. UNCHANGED idVars /\ nConn <= nConn'
    BY <1>1, <1>4 DEF Close, idVars, serverVars, ioVars, guiVars, uiVars, TypeOK, NetTypeOK
  <2>5. QED
    BY <2>1, <2>2, <2>3, <2>4, SameIds DEF TypeOK
<1>5. ASSUME NEW d \in Devices, PowerOff(d) PROVE TallyInv'
  <2>1. NetTypeOK' /\ LightTypeOK'
    BY <1>1, <1>5, Numbers DEF PowerOff, TypeOK, NetTypeOK, LightTypeOK
  <2>2. CountersOK'
    BY <1>1, <1>5, BoundsAssumption DEF PowerOff, TypeOK, CountersOK
  <2>3. ServerTypeOK' /\ IoTypeOK' /\ GuiTypeOK' /\ UiTypeOK'
    BY <1>1, <1>5, SameTypes, Zenon DEF PowerOff
  <2>4. UNCHANGED idVars /\ nConn <= nConn'
    BY <1>1, <1>5 DEF PowerOff, idVars, serverVars, ioVars, guiVars, uiVars, TypeOK, NetTypeOK
  <2>5. QED
    BY <2>1, <2>2, <2>3, <2>4, SameIds DEF TypeOK
<1>6. ASSUME NEW d \in Devices, PowerOn(d) PROVE TallyInv'
  <2>1. NetTypeOK' /\ ServerTypeOK' /\ IoTypeOK' /\ GuiTypeOK' /\ UiTypeOK' /\ CountersOK'
    BY <1>1, <1>6, SameTypes, Zenon DEF PowerOn
  <2>2. LightTypeOK'
    BY <1>1, <1>6, NamesAssumption DEF PowerOn, TypeOK, LightTypeOK
  <2>3. UNCHANGED idVars /\ nConn <= nConn'
    BY <1>1, <1>6 DEF PowerOn, idVars, netVars, serverVars, ioVars, guiVars, uiVars, TypeOK, NetTypeOK
  <2>4. QED
    BY <2>1, <2>2, <2>3, SameIds DEF TypeOK
<1>7. ASSUME NEW c \in Conns, Reset(c) PROVE TallyInv'
  <2>1. NetTypeOK'
    BY <1>1, <1>7 DEF Reset, TypeOK, NetTypeOK
  <2>2. LightTypeOK' /\ ServerTypeOK' /\ IoTypeOK' /\ GuiTypeOK' /\ UiTypeOK' /\ CountersOK'
    BY <1>1, <1>7, SameTypes, Zenon DEF Reset
  <2>3. UNCHANGED idVars /\ nConn <= nConn'
    BY <1>1, <1>7 DEF Reset, idVars, serverVars, ioVars, guiVars, uiVars, TypeOK, NetTypeOK
  <2>4. QED
    BY <2>1, <2>2, <2>3, SameIds DEF TypeOK
<1>8. QED
  BY <1>2, <1>3, <1>4, <1>5, <1>6, <1>7 DEF Lights

(* Steps that keep the registry, the shutdowns and the UI thread's locals. *)
regVars == <<guyConn, currentId, shut, uiPc, uiId, uiBox>>

LEMMA SameRegistry ==
  ASSUME TallyInv, UNCHANGED regVars, nAcc <= nAcc', nAcc \in Int, nAcc' \in Int
  PROVE  Registered' = Registered /\ UiInv' /\ RegistryInv' /\ OneIdPerConnection'
<1>1. Registered' = Registered
  BY Zenon DEF Registered, regVars
<1>2. UiInv' /\ RegistryInv'
  BY <1>1, Zenon DEF TallyInv, UiInv, RegistryInv, regVars
<1>3. OneIdPerConnection'
  BY <1>1, Numbers DEF TallyInv, OneIdPerConnection, regVars, TypeOK, ServerTypeOK, Registered
<1>4. QED
  BY <1>1, <1>2, <1>3

(* The io thread greets a client.                                           *)
LEMMA HandleAcceptPreserves ==
  ASSUME TallyInv, HandleAccept
  PROVE  TallyInv'
<1>1. TypeOK /\ CountsInv /\ IoInv /\ UiInv /\ RegistryInv /\ LookupsSafe
      /\ OneIdPerConnection /\ Watched
  BY DEF TallyInv
<1>2. nConn \in 0 .. MaxConn /\ nAcc \in 0 .. MaxConn /\ nAcc < nConn /\ nAcc' = nAcc + 1
  BY <1>1 DEF HandleAccept, TypeOK, NetTypeOK, ServerTypeOK
<1>3. nAcc + 1 \in Conns
  BY <1>2, Numbers
<1>4. TypeOK'
  <2>1. inbox' \in [Conns -> Seq(Request)]
    BY <1>1, SentType, AskType, Numbers DEF HandleAccept, TypeOK, NetTypeOK
  <2>2. NetTypeOK'
    BY <1>1, <2>1, Zenon DEF HandleAccept, TypeOK, NetTypeOK
  <2>3. ServerTypeOK'
    <3>1. nAcc' \in 0 .. MaxConn
      BY <1>2, Numbers
    <3>2. QED
      BY <1>1, <3>1, Zenon DEF HandleAccept, TypeOK, ServerTypeOK
  <2>4. IoTypeOK'
    BY <1>1, <1>3, StartReadType DEF HandleAccept, TypeOK, IoTypeOK, Newest, IoPcs, Handshake
  <2>5. LightTypeOK' /\ GuiTypeOK' /\ UiTypeOK' /\ CountersOK'
    BY <1>1, SameTypes, Zenon DEF HandleAccept
  <2>6. QED
    BY <2>2, <2>3, <2>4, <2>5 DEF TypeOK
<1>5. Registered' = Registered /\ UiInv' /\ RegistryInv' /\ OneIdPerConnection'
  <2>1. UNCHANGED regVars
    BY DEF HandleAccept, regVars, uiVars
  <2>2. QED
    BY <1>2, <2>1, SameRegistry, Numbers
<1>6. CountsInv'
  BY <1>1, <1>2 DEF HandleAccept, CountsInv, TypeOK, ServerTypeOK
<1>7. IoInv'
  <2>1. ioPc' = "askId" /\ ioConn' = nAcc' /\ ioConn' \in Conns /\ ioId' = NoId /\ died' = FALSE
    BY <1>1, <1>2, <1>3 DEF HandleAccept, IoInv, Newest, Beating
  <2>2. \A id \in Registered : guyConn'[id] # ioConn'
    BY <1>1, <1>2 DEF HandleAccept, OneIdPerConnection, Newest, Registered
  <2>3. QED
    BY <1>5, <2>1, <2>2 DEF IoInv, Handshake, Beating
<1>8. LookupsSafe'
  BY <1>1, <1>5 DEF HandleAccept, LookupsSafe, InUse, uiVars, guiVars
<1>9. Watched'
  BY <1>1, <1>5, Zenon DEF HandleAccept, Watched, BeingBeaten, Beating
<1>10. QED
  BY <1>4, <1>5, <1>6, <1>7, <1>8, <1>9 DEF TallyInv

(* A failed accept leaves everything but the acceptor alone.                *)
LEMMA HandleAcceptErrorPreserves ==
  ASSUME TallyInv, HandleAcceptError
  PROVE  TallyInv'
<1>1. TypeOK
  BY DEF TallyInv
<1>2. ServerTypeOK'
  BY <1>1, Zenon DEF HandleAcceptError, TypeOK, ServerTypeOK
<1>3. NetTypeOK' /\ LightTypeOK' /\ IoTypeOK' /\ GuiTypeOK' /\ UiTypeOK' /\ CountersOK'
  BY <1>1, SameTypes, Zenon DEF HandleAcceptError
<1>4. UNCHANGED idVars /\ nConn <= nConn'
  BY <1>1 DEF HandleAcceptError, idVars, netVars, ioVars, guiVars, uiVars, TypeOK, NetTypeOK
<1>5. QED
  BY <1>2, <1>3, <1>4, SameIds DEF TypeOK

(* BackToPoll leaves the io thread idle, with its locals cleared.           *)
LEMMA BackToPollType ==
  ASSUME TypeOK, BackToPoll
  PROVE  IoTypeOK' /\ accepting' \in BOOLEAN
<1>1. accepting' \in BOOLEAN
  BY Zenon DEF TypeOK, ServerTypeOK, BackToPoll, StartAccept
<1>2. IoTypeOK'
  BY Numbers DEF BackToPoll, IoTypeOK, IoPcs, Reads
<1>3. QED
  BY <1>1, <1>2

(* Once back, the io thread's part of the invariant holds again.            *)
LEMMA BackToPollInv ==
  ASSUME BackToPoll
  PROVE  IoInv' /\ \A id : ~BeingBeaten(id)'
  BY DEF BackToPoll, IoInv, Handshake, Beating, BeingBeaten

(* The light's answer about its id.                                         *)
LEMMA GotIdPreserves ==
  ASSUME TallyInv, GotId
  PROVE  TallyInv'
<1>1. TypeOK /\ CountsInv /\ IoInv /\ UiInv /\ RegistryInv /\ LookupsSafe
      /\ OneIdPerConnection /\ Watched
  BY DEF TallyInv
<1>2. /\ ioPc = "askId" /\ ioConn \in Conns /\ ioConn = nAcc /\ ioId = NoId
      /\ currentId < nAcc /\ died = FALSE
      /\ \A id \in Registered : guyConn[id] # ioConn
  BY <1>1 DEF GotId, IoInv, CountsInv, Handshake, Beating, TypeOK, IoTypeOK
<1>3. currentId \in 0 .. MaxConn /\ nAcc \in 0 .. MaxConn /\ currentId + 1 \in Ids
  BY <1>1, <1>2, Numbers DEF TypeOK, ServerTypeOK
<1>4. readBuffer' \in Seq(Line) /\ outbox' \in [Conns -> Seq(Line)]
  BY <1>1, <1>2, ReadType DEF GotId, TypeOK, IoTypeOK
<1>5. CASE BackToPoll /\ UNCHANGED <<currentId, inbox>>
  <2>1. NetTypeOK'
    BY <1>1, <1>4, <1>5, Zenon DEF GotId, TypeOK, NetTypeOK
  <2>2. ServerTypeOK'
    BY <1>1, <1>4, <1>5, BackToPollType, Zenon DEF GotId, TypeOK, ServerTypeOK
  <2>3. IoTypeOK' /\ LightTypeOK' /\ GuiTypeOK' /\ UiTypeOK' /\ CountersOK'
    BY <1>1, <1>5, BackToPollType, SameTypes, Zenon DEF GotId
  <2>4. Registered' = Registered /\ UiInv' /\ RegistryInv' /\ OneIdPerConnection'
    BY <1>1, <1>3, <1>5, SameRegistry DEF GotId, regVars, uiVars
  <2>5. CountsInv'
    BY <1>1, <1>5 DEF GotId, CountsInv, BackToPoll
  <2>6. LookupsSafe'
    BY <1>1, <1>5, <2>4 DEF GotId, LookupsSafe, InUse, uiVars, guiVars, BackToPoll
  <2>7. Watched'
    BY <1>1, <1>2, <1>5, <2>4, BackToPollInv, Zenon
       DEF GotId, Watched, BeingBeaten, Beating
  <2>8. QED
    BY <1>5, <2>1, <2>2, <2>3, <2>4, <2>5, <2>6, <2>7, BackToPollInv DEF TallyInv, TypeOK
<1>6. CASE /\ currentId' = currentId + 1
           /\ inbox' = Sent(inbox, ioConn, Ask("3", NoName))
           /\ ioPc' = "askAck" /\ ioRead' = StartRead'
           /\ UNCHANGED <<accepting, ioConn, ioId, ioName, ioBox, ioState, died>>
  <2>1. NetTypeOK'
    <3>1. inbox' \in [Conns -> Seq(Request)]
      BY <1>1, <1>6, SentType, AskType, Numbers DEF TypeOK, NetTypeOK
    <3>2. QED
      BY <1>1, <1>4, <3>1, Zenon DEF GotId, TypeOK, NetTypeOK
  <2>2. ServerTypeOK'
    <3>1. currentId' \in 0 .. MaxConn
      BY <1>3, <1>6, Numbers
    <3>2. QED
      BY <1>1, <1>4, <1>6, <3>1, Zenon DEF GotId, TypeOK, ServerTypeOK
  <2>3. IoTypeOK'
    BY <1>1, <1>6, StartReadType, Zenon DEF TypeOK, IoTypeOK, IoPcs, Handshake
  <2>4. LightTypeOK' /\ GuiTypeOK' /\ UiTypeOK' /\ CountersOK'
    BY <1>1, SameTypes, Zenon DEF GotId
  <2>5. Registered' = Registered
    BY DEF GotId, Registered
  <2>6. CountsInv'
    BY <1>1, <1>2, <1>3, <1>6 DEF GotId, CountsInv
  <2>7. UiInv' /\ OneIdPerConnection'
    BY <1>1, <2>5, Zenon DEF GotId, UiInv, OneIdPerConnection, uiVars
  <2>8. RegistryInv'
    <3>1. \A id \in Registered : id <= currentId'
      BY <1>1, <1>3, <1>6 DEF RegistryInv, Registered, Ids
    <3>2. QED
      BY <1>1, <2>5, <3>1, Zenon DEF GotId, RegistryInv
  <2>9. IoInv'
    <3>1. currentId' \in Ids \ Registered
      BY <1>1, <1>3, <1>6 DEF RegistryInv
    <3>2. QED
      BY <1>2, <1>6, <2>5, <3>1 DEF GotId, IoInv, Handshake, Beating
  <2>10. LookupsSafe'
    BY <1>1, <1>6, <2>5 DEF GotId, LookupsSafe, InUse, uiVars, guiVars
  <2>11. Watched'
    BY <1>1, <1>2, <1>6, <2>5, Zenon DEF GotId, Watched, BeingBeaten, Beating
  <2>12. QED
    BY <2>1, <2>2, <2>3, <2>4, <2>6, <2>7, <2>8, <2>9, <2>10, <2>11 DEF TallyInv, TypeOK
<1>7. QED
  BY <1>5, <1>6, Zenon DEF GotId

(* The light's confirmation of its id.                                      *)
LEMMA GotAckPreserves ==
  ASSUME TallyInv, GotAck
  PROVE  TallyInv'
<1>1. TypeOK /\ CountsInv /\ IoInv /\ UiInv /\ RegistryInv /\ LookupsSafe
      /\ OneIdPerConnection /\ Watched
  BY DEF TallyInv
<1>2. /\ ioPc = "askAck" /\ ioConn \in Conns /\ ioConn = nAcc /\ ioId = NoId
      /\ currentId \in Ids \ Registered /\ died = FALSE
      /\ \A id \in Registered : guyConn[id] # ioConn
  BY <1>1 DEF GotAck, IoInv, Handshake, Beating, TypeOK, IoTypeOK
<1>3. readBuffer' \in Seq(Line) /\ outbox' \in [Conns -> Seq(Line)]
  BY <1>1, <1>2, ReadType DEF GotAck, TypeOK, IoTypeOK
<1>4. TypeOK'
  <2>1. inbox' \in [Conns -> Seq(Request)]
    BY <1>1, SentType, AskType, Numbers DEF GotAck, TypeOK, NetTypeOK
  <2>2. NetTypeOK'
    BY <1>1, <1>3, <2>1, Zenon DEF GotAck, TypeOK, NetTypeOK
  <2>3. ServerTypeOK'
    BY <1>1, <1>3, Zenon DEF GotAck, TypeOK, ServerTypeOK
  <2>4. IoTypeOK'
    BY <1>1, StartReadType, Zenon DEF GotAck, TypeOK, IoTypeOK, IoPcs, Handshake
  <2>5. LightTypeOK' /\ GuiTypeOK' /\ UiTypeOK' /\ CountersOK'
    BY <1>1, SameTypes, Zenon DEF GotAck
  <2>6. QED
    BY <2>2, <2>3, <2>4, <2>5 DEF TypeOK
<1>5. Registered' = Registered
  BY DEF GotAck, Registered
<1>6. CountsInv'
  BY <1>1, <1>2 DEF GotAck, CountsInv
<1>7. UiInv' /\ OneIdPerConnection' /\ RegistryInv'
  BY <1>1, <1>5, Zenon DEF GotAck, UiInv, OneIdPerConnection, RegistryInv, uiVars
<1>8. IoInv'
  BY <1>2, <1>5 DEF GotAck, IoInv, Handshake, Beating
<1>9. LookupsSafe'
  BY <1>1, <1>5 DEF GotAck, LookupsSafe, InUse, uiVars, guiVars
<1>10. Watched'
  BY <1>1, <1>2, <1>5, Zenon DEF GotAck, Watched, BeingBeaten, Beating
<1>11. QED
  BY <1>4, <1>6, <1>7, <1>8, <1>9, <1>10 DEF TallyInv

(* The light's name: it is registered, and beaten for the first time.       *)
LEMMA GotNamePreserves ==
  ASSUME TallyInv, GotName
  PROVE  TallyInv'
<1>1. TypeOK /\ CountsInv /\ IoInv /\ UiInv /\ RegistryInv /\ LookupsSafe
      /\ OneIdPerConnection /\ Watched
  BY DEF TallyInv
<1>2. /\ ioPc = "askName" /\ ioConn \in Conns /\ ioConn = nAcc /\ ioId = NoId
      /\ currentId \in Ids \ Registered /\ died = FALSE
      /\ \A id \in Registered : guyConn[id] # ioConn
  BY <1>1 DEF GotName, IoInv, Handshake, Beating, TypeOK, IoTypeOK
<1>3. /\ readBuffer' \in Seq(Line) /\ outbox' \in [Conns -> Seq(Line)]
      /\ ioName' \in Names
  BY <1>1, <1>2, ReadType DEF GotName, TypeOK, IoTypeOK
<1>4. TypeOK'
  <2>1. inbox' \in [Conns -> Seq(Request)]
    BY <1>1, BeatType DEF GotName, TypeOK, NetTypeOK
  <2>2. NetTypeOK'
    BY <1>1, <1>3, <2>1, Zenon DEF GotName, TypeOK, NetTypeOK
  <2>3. guyConn' \in [Ids -> Conns \cup {NoConn}] /\ guyName' \in [Ids -> Names]
    BY <1>1, <1>2, <1>3 DEF GotName, Insert, TypeOK, ServerTypeOK
  <2>4. ServerTypeOK'
    BY <1>1, <1>3, <2>3, Zenon DEF GotName, TypeOK, ServerTypeOK
  <2>5. IoTypeOK'
    BY <1>1, <1>2, <1>3, StartReadType, Zenon DEF GotName, TypeOK, IoTypeOK, IoPcs, Beating
  <2>6. LightTypeOK' /\ GuiTypeOK' /\ UiTypeOK' /\ CountersOK'
    BY <1>1, SameTypes, Zenon DEF GotName
  <2>7. QED
    BY <2>2, <2>4, <2>5, <2>6 DEF TypeOK
<1>5. /\ Registered' = Registered \cup {currentId}
      /\ guyConn'[currentId] = ioConn
      /\ \A id \in Registered : guyConn'[id] = guyConn[id]
  BY <1>1, <1>2, Numbers DEF GotName, Insert, Registered, TypeOK, ServerTypeOK
<1>6. CountsInv'
  BY <1>1, <1>2 DEF GotName, CountsInv
<1>7. UiInv'
  BY <1>1, <1>5, Zenon DEF GotName, UiInv, uiVars
<1>8. RegistryInv'
  <2>1. \A id \in Registered' : id <= currentId'
    BY <1>1, <1>5, <1>2, Numbers DEF GotName, RegistryInv
  <2>2. \A c \in Conns : shut'[c] => \E id \in Registered' : guyConn'[id] = c
    BY <1>1, <1>5, Zenon DEF GotName, RegistryInv
  <2>3. QED
    BY <2>1, <2>2 DEF RegistryInv
<1>9. OneIdPerConnection'
  <2>1. ioConn \in 1 .. nAcc'
    BY <1>1, <1>2, Numbers DEF GotName
  <2>2. \A id \in Registered : guyConn'[id] \in 1 .. nAcc' /\ guyConn'[id] # ioConn
    BY <1>1, <1>2, <1>5 DEF GotName, OneIdPerConnection
  <2>3. \A i, j \in Registered : guyConn'[i] = guyConn'[j] => i = j
    BY <1>1, <1>5 DEF OneIdPerConnection
  <2>4. QED
    BY <1>5, <2>1, <2>2, <2>3, Zenon DEF OneIdPerConnection
<1>10. IoInv'
  BY <1>2, <1>5 DEF GotName, IoInv, Handshake, Beating
<1>11. LookupsSafe'
  BY <1>1, <1>2, <1>5 DEF GotName, LookupsSafe, InUse, uiVars, guiVars
<1>12. Watched'
  <2>1. ~shut[ioConn]
    BY <1>1, <1>2, Zenon DEF RegistryInv
  <2>2. currentId \notin armed
    BY <1>1, <1>2, Numbers DEF LookupsSafe, InUse
  <2>3. \A id \in Registered : id # currentId /\ ~BeingBeaten(id) /\ ~BeingBeaten(id)'
    BY <1>2 DEF GotName, BeingBeaten, Beating
  <2>4. BeingBeaten(currentId)'
    BY DEF GotName, BeingBeaten, Beating
  <2>5. QED
    BY <1>1, <1>2, <1>5, <2>1, <2>2, <2>3, <2>4, Zenon DEF GotName, Watched
<1>13. QED
  BY <1>4, <1>6, <1>7, <1>8, <1>9, <1>10, <1>11, <1>12 DEF TallyInv

(* A timer expires.                                                         *)
LEMMA HeartbeatPreserves ==
  ASSUME TallyInv, NEW i \in Ids, HeartbeatForClient(i)
  PROVE  TallyInv'
<1>1. TypeOK /\ CountsInv /\ IoInv /\ UiInv /\ RegistryInv /\ LookupsSafe
      /\ OneIdPerConnection /\ Watched
  BY DEF TallyInv
<1>2. /\ i \in armed /\ i \in Registered /\ guyConn[i] \in Conns
      /\ ~shut[guyConn[i]] /\ died = FALSE /\ ioPc = "poll"
  BY <1>1, Numbers DEF HeartbeatForClient, LookupsSafe, InUse, Registered, Watched, IoInv,
     Beating, TypeOK, ServerTypeOK, IoTypeOK
<1>3. TypeOK'
  <2>1. inbox' \in [Conns -> Seq(Request)]
    BY <1>1, BeatType DEF HeartbeatForClient, TypeOK, NetTypeOK
  <2>2. NetTypeOK'
    BY <1>1, <2>1, Zenon DEF HeartbeatForClient, TypeOK, NetTypeOK
  <2>3. armed' \in SUBSET Ids
    BY <1>1 DEF HeartbeatForClient, TypeOK, ServerTypeOK
  <2>4. ServerTypeOK'
    BY <1>1, <2>3, Zenon DEF HeartbeatForClient, TypeOK, ServerTypeOK
  <2>5. IoTypeOK'
    BY <1>1, <1>2, StartReadType, Zenon DEF HeartbeatForClient, TypeOK, IoTypeOK, IoPcs, Beating
  <2>6. LightTypeOK' /\ GuiTypeOK' /\ UiTypeOK' /\ CountersOK'
    BY <1>1, SameTypes, Zenon DEF HeartbeatForClient
  <2>7. QED
    BY <2>2, <2>4, <2>5, <2>6 DEF TypeOK
<1>4. Registered' = Registered
  BY DEF HeartbeatForClient, Registered
<1>5. CountsInv'
  BY <1>1 DEF HeartbeatForClient, CountsInv
<1>6. UiInv' /\ OneIdPerConnection' /\ RegistryInv'
  BY <1>1, <1>4, Zenon DEF HeartbeatForClient, UiInv, OneIdPerConnection, RegistryInv, uiVars
<1>7. IoInv'
  BY <1>2, <1>4 DEF HeartbeatForClient, IoInv, Handshake, Beating
<1>8. LookupsSafe'
  BY <1>1, <1>2, <1>4 DEF HeartbeatForClient, LookupsSafe, InUse, uiVars, guiVars
<1>9. Watched'
  BY <1>1, <1>2, <1>4 DEF HeartbeatForClient, Watched, BeingBeaten, Beating
<1>10. QED
  BY <1>3, <1>5, <1>6, <1>7, <1>8, <1>9 DEF TallyInv

(* The watchdog shuts the client down that is being beaten.                 *)
LEMMA WatchdogPreserves ==
  ASSUME TallyInv, Watchdog
  PROVE  TallyInv'
<1>1. TypeOK /\ CountsInv /\ IoInv /\ UiInv /\ RegistryInv /\ LookupsSafe
      /\ OneIdPerConnection /\ Watched
  BY DEF TallyInv
<1>2. /\ ioPc \in Beating /\ ioId \in Registered /\ guyConn[ioId] = ioConn
      /\ ioConn \in Conns
  BY <1>1, Numbers DEF Watchdog, IoInv, Handshake, Beating, Registered, TypeOK, IoTypeOK
<1>3. TypeOK'
  <2>1. NetTypeOK'
    <3>1. shut' \in [Conns -> BOOLEAN]
      BY <1>1, Zenon DEF Watchdog, TypeOK, NetTypeOK
    <3>2. QED
      BY <1>1, <3>1, Zenon DEF Watchdog, TypeOK, NetTypeOK
  <2>2. IoTypeOK'
    BY <1>1, Zenon DEF Watchdog, TypeOK, IoTypeOK
  <2>3. ServerTypeOK' /\ LightTypeOK' /\ GuiTypeOK' /\ UiTypeOK' /\ CountersOK'
    BY <1>1, SameTypes, Zenon DEF Watchdog
  <2>4. QED
    BY <2>1, <2>2, <2>3 DEF TypeOK
<1>4. Registered' = Registered /\ InUse' = InUse
  BY DEF Watchdog, Registered, InUse, serverVars, guiVars, uiVars
<1>5. CountsInv' /\ UiInv' /\ LookupsSafe' /\ OneIdPerConnection'
  BY <1>1, <1>4, Zenon DEF Watchdog, CountsInv, UiInv, LookupsSafe, OneIdPerConnection,
     serverVars, uiVars
<1>6. IoInv'
  BY <1>1, <1>4, Zenon DEF Watchdog, IoInv, serverVars
<1>7. shut' = [c \in Conns |-> shut[c] \/ c = ioConn]
  BY <1>1 DEF Watchdog, TypeOK, NetTypeOK
<1>8. RegistryInv'
  <2>1. \A c \in Conns : shut'[c] => \E id \in Registered' : guyConn'[id] = c
    BY <1>1, <1>2, <1>4, <1>7, Zenon DEF Watchdog, RegistryInv, serverVars
  <2>2. QED
    BY <1>1, <1>4, <2>1, Zenon DEF Watchdog, RegistryInv, serverVars
<1>9. Watched'
  <2>1. \A id \in Registered : guyConn[id] \in Conns /\ (guyConn[id] = ioConn <=> id = ioId)
    BY <1>1, <1>2, Numbers DEF OneIdPerConnection, Registered, TypeOK, ServerTypeOK
  <2>2. BeingBeaten(ioId) /\ ioId \notin armed
    BY <1>1, <1>2 DEF Watched, BeingBeaten
  <2>3. UNCHANGED <<guyConn, armed, ioPc, ioId, ioConn>> /\ died' = TRUE
    BY DEF Watchdog, serverVars
  <2>4. ASSUME NEW id \in Registered
        PROVE  /\ id \in armed \/ BeingBeaten(id) \/ shut'[guyConn[id]]
               /\ id \in armed => ~BeingBeaten(id) /\ ~shut'[guyConn[id]]
               /\ BeingBeaten(id) => ioConn = guyConn[id] /\ shut'[ioConn]
    BY <1>1, <1>2, <1>7, <2>1, <2>2, Zenon DEF Watched, BeingBeaten
  <2>5. \A id : BeingBeaten(id)' <=> BeingBeaten(id)
    BY <2>3 DEF BeingBeaten
  <2>6. QED
    BY <1>4, <2>3, <2>4, <2>5, Zenon DEF Watched
<1>10. QED
  BY <1>3, <1>5, <1>6, <1>8, <1>9 DEF TallyInv

(* The heartbeat ends, in the handshake or not.                             *)
LEMMA HeartbeatEndPreserves ==
  ASSUME TallyInv, HeartbeatEnd
  PROVE  TallyInv'
<1>1. TypeOK /\ CountsInv /\ IoInv /\ UiInv /\ RegistryInv /\ LookupsSafe
      /\ OneIdPerConnection /\ Watched
  BY DEF TallyInv
<1>2. /\ ioPc \in Beating /\ ioId \in Registered /\ guyConn[ioId] = ioConn
      /\ ioId \in Ids /\ ioConn \in Conns /\ BeingBeaten(ioId)
      /\ (shut[ioConn] <=> died) /\ ioId \notin armed
  BY <1>1, Numbers DEF HeartbeatEnd, IoInv, Handshake, Beating, Registered, TypeOK, IoTypeOK,
     Watched, BeingBeaten
<1>3. readBuffer' \in Seq(Line) /\ outbox' \in [Conns -> Seq(Line)]
  BY <1>1, <1>2, ReadType DEF HeartbeatEnd, TypeOK, IoTypeOK
<1>4. \/ /\ ioPc' = "match" /\ ioRead' = "recv" /\ died' = FALSE
         /\ UNCHANGED <<accepting, ioConn, ioId, ioName, ioBox, ioState>>
      \/ BackToPoll
  BY Zenon DEF HeartbeatEnd
<1>5. TypeOK'
  <2>1. NetTypeOK'
    BY <1>1, <1>3, Zenon DEF HeartbeatEnd, TypeOK, NetTypeOK
  <2>2. IoTypeOK' /\ accepting' \in BOOLEAN
    <3>1. CASE BackToPoll
      BY <1>1, <3>1, BackToPollType
    <3>2. CASE /\ ioPc' = "match" /\ ioRead' = "recv" /\ died' = FALSE
               /\ UNCHANGED <<accepting, ioConn, ioId, ioName, ioBox, ioState>>
      BY <1>1, <3>2, Zenon DEF TypeOK, IoTypeOK, ServerTypeOK, IoPcs, Reads
    <3>3. QED
      BY <1>4, <3>1, <3>2
  <2>3. armed' \in SUBSET Ids
    BY <1>1, <1>2 DEF HeartbeatEnd, Rearmed, TypeOK, ServerTypeOK
  <2>4. ServerTypeOK'
    BY <1>1, <1>3, <2>2, <2>3, Zenon DEF HeartbeatEnd, TypeOK, ServerTypeOK
  <2>5. GuiTypeOK'
    <3>1. MarkOf(ioId) \in [Boxes -> BOOLEAN]
      BY Zenon DEF MarkOf
    <3>2. marked' \in [Boxes -> BOOLEAN]
      BY <1>1, <3>1, Zenon DEF HeartbeatEnd, TypeOK, GuiTypeOK
    <3>3. QED
      BY <1>1, <3>2, Zenon DEF HeartbeatEnd, TypeOK, GuiTypeOK
  <2>6. LightTypeOK' /\ UiTypeOK' /\ CountersOK'
    BY <1>1, SameTypes, Zenon DEF HeartbeatEnd
  <2>7. QED
    BY <2>1, <2>2, <2>4, <2>5, <2>6 DEF TypeOK
<1>6. Registered' = Registered
  BY DEF HeartbeatEnd, Registered
<1>7. CountsInv'
  BY <1>1, <1>4 DEF HeartbeatEnd, CountsInv, BackToPoll
<1>8. UiInv' /\ OneIdPerConnection' /\ RegistryInv'
  BY <1>1, <1>6, Zenon DEF HeartbeatEnd, UiInv, OneIdPerConnection, RegistryInv, uiVars
<1>9. IoInv'
  <2>1. CASE BackToPoll
    BY <2>1, BackToPollInv
  <2>2. CASE ioPc' = "match" /\ died' = FALSE /\ UNCHANGED <<ioConn, ioId>>
    BY <1>2, <1>6, <2>2 DEF HeartbeatEnd, IoInv, Handshake, Beating
  <2>3. QED
    BY <1>4, <2>1, <2>2
<1>10. LookupsSafe'
  BY <1>1, <1>2, <1>4, <1>6
     DEF HeartbeatEnd, LookupsSafe, InUse, Rearmed, uiVars, BackToPoll
<1>11. Watched'
  <2>1. \A id : ~BeingBeaten(id)'
    BY <1>4, BackToPollInv DEF BeingBeaten, Beating
  <2>2. \A id \in Registered : id # ioId => ~BeingBeaten(id)
    BY DEF BeingBeaten
  <2>3. UNCHANGED <<guyConn, shut>> /\ armed' = Rearmed(ioId)
    BY DEF HeartbeatEnd
  <2>4. ASSUME NEW id \in Registered
        PROVE  id \in Rearmed(ioId) <=> ~shut[guyConn[id]]
    <3>1. CASE id = ioId
      BY <1>2, <3>1, Zenon DEF Rearmed
    <3>2. CASE id # ioId
      BY <1>1, <2>2, <3>2, Zenon DEF Watched, Rearmed
    <3>3. QED
      BY <3>1, <3>2
  <2>5. QED
    BY <1>6, <2>1, <2>3, <2>4, Zenon DEF Watched
<1>12. QED
  BY <1>5, <1>7, <1>8, <1>9, <1>10, <1>11 DEF TallyInv

(* A checkbox is found for the new client, or the popup opens.              *)
LEMMA MatchPreserves ==
  ASSUME TallyInv, Match
  PROVE  TallyInv'
<1>1. TypeOK /\ CountsInv /\ IoInv /\ UiInv /\ RegistryInv /\ LookupsSafe
      /\ OneIdPerConnection /\ Watched
  BY DEF TallyInv
<1>2. /\ ioPc = "match" /\ ioId \in Registered /\ guyConn[ioId] = ioConn
      /\ ioId \in Ids /\ died = FALSE
  BY <1>1 DEF Match, IoInv, Handshake, Beating, Registered, TypeOK, IoTypeOK
<1>3. popup'.id \in {popup.id, ioId} /\ popup' \in [enabled : BOOLEAN, id : Ids \cup {NoId}]
  <2>1. popup \in [enabled : BOOLEAN, id : Ids \cup {NoId}]
    BY <1>1 DEF TypeOK, GuiTypeOK
  <2>2. CASE popup' = [popup EXCEPT !.id = ioId]
    BY <1>2, <2>1, <2>2
  <2>3. CASE popup' = [popup EXCEPT !.enabled = TRUE]
    BY <2>1, <2>3
  <2>4. QED
    BY <2>2, <2>3, Zenon DEF Match
<1>4. \/ ioPc' = "placeBox" /\ ioBox' \in Boxes
      \/ ioPc' = "popupId" /\ ioBox' = ioBox
  <2>1. Matching \in SUBSET Boxes
    BY DEF Matching
  <2>2. QED
    BY <2>1, FirstType, Zenon DEF Match
<1>5. TypeOK'
  <2>1. GuiTypeOK'
    BY <1>1, <1>3, Zenon DEF Match, TypeOK, GuiTypeOK
  <2>2. IoTypeOK'
    BY <1>1, <1>4, Zenon DEF Match, TypeOK, IoTypeOK, IoPcs
  <2>3. NetTypeOK' /\ LightTypeOK' /\ ServerTypeOK' /\ UiTypeOK' /\ CountersOK'
    BY <1>1, SameTypes, Zenon DEF Match
  <2>4. QED
    BY <2>1, <2>2, <2>3 DEF TypeOK
<1>6. Registered' = Registered
  BY DEF Match, Registered, serverVars
<1>7. CountsInv' /\ UiInv' /\ OneIdPerConnection' /\ RegistryInv'
  BY <1>1, <1>4, <1>6, Zenon DEF Match, CountsInv, UiInv, OneIdPerConnection, RegistryInv,
     uiVars, serverVars, netVars
<1>8. IoInv'
  BY <1>2, <1>4, <1>6 DEF Match, IoInv, Handshake, Beating, serverVars
<1>9. LookupsSafe'
  BY <1>1, <1>2, <1>3, <1>6 DEF Match, LookupsSafe, InUse, uiVars, serverVars
<1>10. Watched'
  BY <1>1, <1>2, <1>4, <1>6 DEF Match, Watched, BeingBeaten, Beating, serverVars, netVars
<1>11. QED
  BY <1>5, <1>7, <1>8, <1>9, <1>10 DEF TallyInv

(* The checkbox takes the new client.                                       *)
LEMMA PlaceBoxPreserves ==
  ASSUME TallyInv, PlaceBox
  PROVE  TallyInv'
<1>1. TypeOK /\ CountsInv /\ IoInv /\ UiInv /\ RegistryInv /\ LookupsSafe
      /\ OneIdPerConnection /\ Watched
  BY DEF TallyInv
<1>2. /\ ioPc = "placeBox" /\ ioId \in Registered /\ guyConn[ioId] = ioConn
      /\ ioId \in Ids /\ ioBox \in Boxes /\ ioName \in Names /\ died = FALSE
  BY <1>1 DEF PlaceBox, IoInv, Handshake, Beating, Registered, TypeOK, IoTypeOK
<1>3. TypeOK'
  <2>1. /\ label' \in [Boxes -> Labels] /\ boxId' \in [Boxes -> Ids \cup {NoId}]
        /\ boxName' \in [Boxes -> Names]
        /\ popup' \in [enabled : BOOLEAN, id : Ids \cup {NoId}]
    BY <1>1, <1>2 DEF PlaceBox, Labels, TypeOK, GuiTypeOK
  <2>2. marked' \in [Boxes -> BOOLEAN]
    BY <1>1, Zenon DEF PlaceBox, Unmarked, TypeOK, GuiTypeOK
  <2>3. GuiTypeOK'
    BY <1>1, <2>1, <2>2, Zenon DEF PlaceBox, TypeOK, GuiTypeOK
  <2>4. ioState' \in States
    BY <1>1, <1>2 DEF PlaceBox, TypeOK, GuiTypeOK
  <2>5. IoTypeOK'
    BY <1>1, <2>4, Zenon DEF PlaceBox, TypeOK, IoTypeOK, IoPcs
  <2>6. NetTypeOK' /\ LightTypeOK' /\ ServerTypeOK' /\ UiTypeOK' /\ CountersOK'
    BY <1>1, SameTypes, Zenon DEF PlaceBox
  <2>7. QED
    BY <2>3, <2>5, <2>6 DEF TypeOK
<1>4. Registered' = Registered
  BY DEF PlaceBox, Registered, serverVars
<1>5. CountsInv' /\ UiInv' /\ OneIdPerConnection' /\ RegistryInv'
  BY <1>1, <1>2, <1>4, Zenon DEF PlaceBox, CountsInv, UiInv, OneIdPerConnection, RegistryInv,
     uiVars, serverVars, netVars
<1>6. IoInv'
  BY <1>2, <1>4 DEF PlaceBox, IoInv, Handshake, Beating, serverVars
<1>7. LookupsSafe'
  <2>1. popup'.id = popup.id
    BY <1>1 DEF PlaceBox, TypeOK, GuiTypeOK
  <2>2. \A b \in Boxes : boxId'[b] \in {boxId[b], ioId}
    BY <1>1 DEF PlaceBox, TypeOK, GuiTypeOK
  <2>3. QED
    BY <1>1, <1>2, <1>4, <2>1, <2>2 DEF PlaceBox, LookupsSafe, InUse, uiVars, serverVars
<1>8. Watched'
  BY <1>1, <1>2, <1>4 DEF PlaceBox, Watched, BeingBeaten, Beating, serverVars, netVars
<1>9. QED
  BY <1>3, <1>5, <1>6, <1>7, <1>8 DEF TallyInv

(* The new client is sent its state: the handshake is over.                 *)
LEMMA SendStatePreserves ==
  ASSUME TallyInv, SendState
  PROVE  TallyInv'
<1>1. TypeOK /\ CountsInv /\ IoInv /\ UiInv /\ RegistryInv /\ LookupsSafe
      /\ OneIdPerConnection /\ Watched
  BY DEF TallyInv
<1>2. TypeOK'
  <2>1. shown' \in [Conns -> States \cup {Dark}]
    BY <1>1, ShowType DEF SendState, TypeOK, NetTypeOK, IoTypeOK
  <2>2. NetTypeOK'
    BY <1>1, <2>1, Zenon DEF SendState, TypeOK, NetTypeOK
  <2>3. IoTypeOK' /\ ServerTypeOK'
    BY <1>1, BackToPollType, Zenon DEF SendState, TypeOK, ServerTypeOK
  <2>4. LightTypeOK' /\ GuiTypeOK' /\ UiTypeOK' /\ CountersOK'
    BY <1>1, SameTypes, Zenon DEF SendState
  <2>5. QED
    BY <2>2, <2>3, <2>4 DEF TypeOK
<1>3. Registered' = Registered
  BY DEF SendState, Registered
<1>4. CountsInv' /\ UiInv' /\ OneIdPerConnection' /\ RegistryInv'
  BY <1>1, <1>3 DEF SendState, CountsInv, UiInv, OneIdPerConnection, RegistryInv,
     uiVars, BackToPoll
<1>5. LookupsSafe'
  BY <1>1, <1>3 DEF SendState, LookupsSafe, InUse, uiVars, guiVars, BackToPoll
<1>6. Watched'
  BY <1>1, <1>3, BackToPollInv DEF SendState, Watched, BeingBeaten, Beating
<1>7. QED
  BY <1>2, <1>4, <1>5, <1>6, BackToPollInv DEF SendState, TallyInv

(* The popup gets the id of the new client: the handshake is over.          *)
LEMMA PopupIdPreserves ==
  ASSUME TallyInv, PopupId
  PROVE  TallyInv'
<1>1. TypeOK /\ CountsInv /\ IoInv /\ UiInv /\ RegistryInv /\ LookupsSafe
      /\ OneIdPerConnection /\ Watched
  BY DEF TallyInv
<1>2. ioPc = "popupId" /\ ioId \in Registered /\ ioId \in Ids
  BY <1>1 DEF PopupId, IoInv, Handshake, Beating, Registered
<1>3. /\ popup' \in [enabled : BOOLEAN, id : Ids \cup {NoId}]
      /\ popup'.id = ioId
  BY <1>1, <1>2 DEF PopupId, TypeOK, GuiTypeOK
<1>4. TypeOK'
  <2>1. GuiTypeOK'
    BY <1>1, <1>3, Zenon DEF PopupId, TypeOK, GuiTypeOK
  <2>2. IoTypeOK' /\ ServerTypeOK'
    BY <1>1, BackToPollType, Zenon DEF PopupId, TypeOK, ServerTypeOK
  <2>3. NetTypeOK' /\ LightTypeOK' /\ UiTypeOK' /\ CountersOK'
    BY <1>1, SameTypes, Zenon DEF PopupId
  <2>4. QED
    BY <2>1, <2>2, <2>3 DEF TypeOK
<1>5. Registered' = Registered
  BY DEF PopupId, Registered
<1>6. CountsInv' /\ UiInv' /\ OneIdPerConnection' /\ RegistryInv'
  BY <1>1, <1>5 DEF PopupId, CountsInv, UiInv, OneIdPerConnection, RegistryInv,
     uiVars, netVars, BackToPoll
<1>7. LookupsSafe'
  BY <1>1, <1>2, <1>3, <1>5 DEF PopupId, LookupsSafe, InUse, uiVars, BackToPoll
<1>8. Watched'
  BY <1>1, <1>2, <1>5, BackToPollInv DEF PopupId, Watched, BeingBeaten, Beating, netVars
<1>9. QED
  BY <1>4, <1>6, <1>7, <1>8, BackToPollInv DEF PopupId, TallyInv

(* The io thread and the watchdog.                                          *)
LEMMA IoThreadPreserves ==
  ASSUME TallyInv, IoThread \/ Watchdog
  PROVE  TallyInv'
  BY HandleAcceptPreserves, HandleAcceptErrorPreserves, GotIdPreserves, GotAckPreserves,
     GotNamePreserves, HeartbeatPreserves, WatchdogPreserves, HeartbeatEndPreserves,
     MatchPreserves, PlaceBoxPreserves, SendStatePreserves, PopupIdPreserves, Zenon
     DEF IoThread, IoHandler

(* Reporting a state to the light of a checkbox.                            *)
LEMMA ReportedType ==
  ASSUME TypeOK, NEW b \in Boxes, NEW s \in States, Reported(b, s)
  PROVE  lastState' \in [Boxes -> States] /\ shown' \in [Conns -> States \cup {Dark}]
<1>1. lastState' \in [Boxes -> States]
  BY DEF Reported, TypeOK, GuiTypeOK
<1>2. Show(shown, boxId[b], s) \in [Conns -> States \cup {Dark}]
  BY ShowType DEF TypeOK, NetTypeOK
<1>3. shown' \in [Conns -> States \cup {Dark}]
  BY <1>2, Zenon DEF Reported, TypeOK, NetTypeOK
<1>4. QED
  BY <1>1, <1>3

(* The second Enter: the popup's id is read, and a new name is sent.        *)
LEMMA EnterNamePreserves ==
  ASSUME TallyInv, NEW n \in TypedNames, EnterName(n)
  PROVE  TallyInv'
<1>1. TypeOK /\ CountsInv /\ IoInv /\ UiInv /\ RegistryInv /\ LookupsSafe
      /\ OneIdPerConnection /\ Watched
  BY DEF TallyInv
<1>2. n \in Names
  BY NamesAssumption
<1>3. /\ inbox' \in [Conns -> Seq(Request)]
      /\ uiPc' \in {"idle", "rename", "setText", "setIds"} /\ uiRead' \in Reads
      /\ \/ UNCHANGED <<uiPc, uiBox, uiId, uiName>>
         \/ /\ uiBox' \in Boxes /\ uiId' \in Registered /\ uiName' \in Names
            /\ uiId' \in Ids
  <2>1. CASE AtPlace = {}
    BY <1>1, <2>1, Zenon DEF EnterName, TypeOK, NetTypeOK, UiTypeOK
  <2>2. CASE AtPlace # {}
    <3>1. First(AtPlace) \in Boxes
      BY <2>2, FirstType DEF AtPlace
    <3>2. popup.id # NoId /\ popup.id \in Registered /\ popup.id \in Ids
      BY <1>1, <2>2 DEF EnterName, LookupsSafe, InUse, Registered
    <3>3. Sent(inbox, guyConn[popup.id], Ask("5", n)) \in [Conns -> Seq(Request)]
      BY <1>1, <1>2, SentType, AskType DEF TypeOK, NetTypeOK
    <3>4. uiBox' = First(AtPlace) /\ uiId' = popup.id /\ uiName' = n
      BY <2>2, Zenon DEF EnterName
    <3>5. CASE n # guyName[popup.id]
      <4>1. /\ inbox' = Sent(inbox, guyConn[popup.id], Ask("5", n))
            /\ uiPc' = "rename" /\ uiRead' = StartRead
        BY <2>2, <3>5, Zenon DEF EnterName
      <4>2. QED
        BY <1>2, <3>1, <3>2, <3>3, <3>4, <4>1, StartReadType
    <3>6. CASE n = guyName[popup.id]
      <4>1. uiPc' = "setText" /\ UNCHANGED <<inbox, uiRead>>
        BY <2>2, <3>6, Zenon DEF EnterName
      <4>2. QED
        BY <1>1, <1>2, <3>1, <3>2, <3>4, <4>1 DEF TypeOK, NetTypeOK, UiTypeOK
    <3>7. QED
      BY <3>5, <3>6
  <2>3. QED
    BY <2>1, <2>2
<1>4. TypeOK'
  <2>1. NetTypeOK'
    BY <1>1, <1>3, Zenon DEF EnterName, TypeOK, NetTypeOK
  <2>2. UiTypeOK'
    BY <1>1, <1>3, Zenon DEF EnterName, TypeOK, UiTypeOK
  <2>3. CountersOK'
    BY <1>1, BoundsAssumption DEF EnterName, TypeOK, CountersOK
  <2>4. LightTypeOK' /\ ServerTypeOK' /\ IoTypeOK' /\ GuiTypeOK'
    BY <1>1, SameTypes, Zenon DEF EnterName
  <2>5. QED
    BY <2>1, <2>2, <2>3, <2>4 DEF TypeOK
<1>5. Registered' = Registered
  BY DEF EnterName, Registered, serverVars
<1>6. CountsInv' /\ OneIdPerConnection' /\ RegistryInv' /\ IoInv'
  BY <1>1, <1>5, Zenon DEF EnterName, CountsInv, OneIdPerConnection, RegistryInv, IoInv,
     serverVars, ioVars
<1>7. UiInv'
  BY <1>1, <1>3, <1>5, Zenon DEF UiInv
<1>8. LookupsSafe'
  <2>1. uiId' \in Registered \cup {uiId}
    BY <1>3
  <2>2. QED
    BY <1>1, <1>5, <2>1 DEF EnterName, LookupsSafe, InUse, serverVars, ioVars, guiVars
<1>9. Watched'
  BY <1>1, <1>5, Zenon DEF EnterName, Watched, BeingBeaten, serverVars, ioVars
<1>10. QED
  BY <1>4, <1>6, <1>7, <1>8, <1>9 DEF TallyInv

(* What comes back is taken for the confirmation of the name.               *)
LEMMA RenamedPreserves ==
  ASSUME TallyInv, Renamed
  PROVE  TallyInv'
<1>1. TypeOK /\ CountsInv /\ IoInv /\ UiInv /\ RegistryInv /\ LookupsSafe
      /\ OneIdPerConnection /\ Watched
  BY DEF TallyInv
<1>2. uiId \in Registered /\ guyConn[uiId] \in Conns /\ uiBox \in Boxes
  BY <1>1 DEF Renamed, UiInv, Registered, TypeOK, ServerTypeOK
<1>3. readBuffer' \in Seq(Line) /\ outbox' \in [Conns -> Seq(Line)]
  BY <1>1, <1>2, ReadType DEF Renamed, TypeOK, UiTypeOK
<1>4. TypeOK'
  <2>1. NetTypeOK'
    BY <1>1, <1>3, Zenon DEF Renamed, TypeOK, NetTypeOK
  <2>2. guyName' \in [Ids -> Names]
    BY <1>1 DEF Renamed, TypeOK, ServerTypeOK, UiTypeOK
  <2>3. ServerTypeOK'
    BY <1>1, <1>3, <2>2, Zenon DEF Renamed, TypeOK, ServerTypeOK
  <2>4. UiTypeOK'
    BY <1>1, Zenon DEF Renamed, TypeOK, UiTypeOK, Reads
  <2>5. LightTypeOK' /\ IoTypeOK' /\ GuiTypeOK' /\ CountersOK'
    BY <1>1, SameTypes, Zenon DEF Renamed
  <2>6. QED
    BY <2>1, <2>3, <2>4, <2>5 DEF TypeOK
<1>5. Registered' = Registered /\ InUse' = InUse
  BY DEF Renamed, Registered, InUse, ioVars, guiVars
<1>6. CountsInv' /\ OneIdPerConnection' /\ RegistryInv' /\ IoInv' /\ LookupsSafe'
  BY <1>1, <1>5, Zenon DEF Renamed, CountsInv, OneIdPerConnection, RegistryInv, IoInv,
     LookupsSafe, ioVars
<1>7. UiInv'
  BY <1>2, <1>5, Zenon DEF Renamed, UiInv
<1>8. Watched'
  BY <1>1, <1>5, Zenon DEF Renamed, Watched, BeingBeaten, ioVars
<1>9. QED
  BY <1>4, <1>6, <1>7, <1>8 DEF TallyInv

(* The checkbox takes the id the user placed.                               *)
LEMMA SetIdsPreserves ==
  ASSUME TallyInv, SetIds
  PROVE  TallyInv'
<1>1. TypeOK /\ CountsInv /\ IoInv /\ UiInv /\ RegistryInv /\ LookupsSafe
      /\ OneIdPerConnection /\ Watched
  BY DEF TallyInv
<1>2. uiId \in Registered /\ uiId \in Ids /\ uiName \in Names
  BY <1>1 DEF SetIds, UiInv, Registered, TypeOK, UiTypeOK
<1>3. /\ boxId' \in [Boxes -> Ids \cup {NoId}] /\ boxName' \in [Boxes -> Names]
      /\ popup' \in [enabled : BOOLEAN, id : Ids \cup {NoId}] /\ popup'.id = popup.id
      /\ \A b \in Boxes : boxId'[b] \in {boxId[b], uiId}
  BY <1>1, <1>2 DEF SetIds, TypeOK, GuiTypeOK
<1>4. TypeOK'
  <2>1. GuiTypeOK'
    BY <1>1, <1>3, Zenon DEF SetIds, TypeOK, GuiTypeOK
  <2>2. UiTypeOK'
    BY <1>1, Numbers, Zenon DEF SetIds, TypeOK, UiTypeOK
  <2>3. NetTypeOK' /\ LightTypeOK' /\ ServerTypeOK' /\ IoTypeOK' /\ CountersOK'
    BY <1>1, SameTypes, Zenon DEF SetIds
  <2>4. QED
    BY <2>1, <2>2, <2>3 DEF TypeOK
<1>5. Registered' = Registered
  BY DEF SetIds, Registered, serverVars
<1>6. CountsInv' /\ OneIdPerConnection' /\ RegistryInv' /\ IoInv'
  BY <1>1, <1>5, Zenon DEF SetIds, CountsInv, OneIdPerConnection, RegistryInv, IoInv,
     netVars, serverVars, ioVars
<1>7. UiInv'
  BY DEF SetIds, UiInv
<1>8. LookupsSafe'
  BY <1>1, <1>2, <1>3, <1>5 DEF SetIds, LookupsSafe, InUse, serverVars, ioVars
<1>9. Watched'
  BY <1>1, <1>5, Zenon DEF SetIds, Watched, BeingBeaten, netVars, serverVars, ioVars
<1>10. QED
  BY <1>4, <1>6, <1>7, <1>8, <1>9 DEF TallyInv

(* The UI thread.                                                           *)
LEMMA UiThreadPreserves ==
  ASSUME TallyInv, UiThread
  PROVE  TallyInv'
<1>1. TypeOK
  BY DEF TallyInv
<1>2. ASSUME NEW b \in Boxes, Click(b) PROVE TallyInv'
  <2>1. state' \in [Boxes -> States]
    BY <1>1, <1>2, AddToStateType DEF Click, TypeOK, GuiTypeOK
  <2>2. lastState' \in [Boxes -> States] /\ shown' \in [Conns -> States \cup {Dark}]
    BY <1>1, <1>2, <2>1, ReportedType DEF Click
  <2>3. NetTypeOK' /\ GuiTypeOK'
    BY <1>1, <1>2, <2>1, <2>2, Zenon DEF Click, TypeOK, NetTypeOK, GuiTypeOK
  <2>4. CountersOK'
    BY <1>1, <1>2, BoundsAssumption DEF Click, TypeOK, CountersOK
  <2>5. LightTypeOK' /\ ServerTypeOK' /\ IoTypeOK' /\ UiTypeOK'
    BY <1>1, <1>2, SameTypes, Zenon DEF Click
  <2>6. UNCHANGED idVars /\ nConn <= nConn'
    BY <1>1, <1>2 DEF Click, idVars, serverVars, ioVars, uiVars, TypeOK, NetTypeOK
  <2>7. QED
    BY <2>3, <2>4, <2>5, <2>6, SameIds DEF TypeOK
<1>3. ASSUME NEW b \in Boxes, Report(b) PROVE TallyInv'
  <2>1. state[b] \in States
    BY <1>1 DEF TypeOK, GuiTypeOK
  <2>2. lastState' \in [Boxes -> States] /\ shown' \in [Conns -> States \cup {Dark}]
    BY <1>1, <1>3, <2>1, ReportedType DEF Report
  <2>3. NetTypeOK' /\ GuiTypeOK'
    BY <1>1, <1>3, <2>2, Zenon DEF Report, TypeOK, NetTypeOK, GuiTypeOK
  <2>4. LightTypeOK' /\ ServerTypeOK' /\ IoTypeOK' /\ UiTypeOK' /\ CountersOK'
    BY <1>1, <1>3, SameTypes, Zenon DEF Report
  <2>5. UNCHANGED idVars /\ nConn <= nConn'
    BY <1>1, <1>3 DEF Report, idVars, serverVars, ioVars, uiVars, TypeOK, NetTypeOK
  <2>6. QED
    BY <2>3, <2>4, <2>5, SameIds DEF TypeOK
<1>4. ASSUME NEW p \in TypedPlaces, EnterPlace(p) PROVE TallyInv'
  <2>1. UiTypeOK'
    BY <1>1, <1>4, Zenon DEF EnterPlace, TypeOK, UiTypeOK
  <2>2. NetTypeOK' /\ LightTypeOK' /\ ServerTypeOK' /\ IoTypeOK' /\ GuiTypeOK' /\ CountersOK'
    BY <1>1, <1>4, SameTypes, Zenon DEF EnterPlace
  <2>3. UNCHANGED idVars /\ nConn <= nConn'
    BY <1>1, <1>4 DEF EnterPlace, idVars, netVars, serverVars, ioVars, guiVars, TypeOK, NetTypeOK
  <2>4. QED
    BY <2>1, <2>2, <2>3, SameIds DEF TypeOK
<1>5. ASSUME SetText PROVE TallyInv'
  <2>1. label' \in [Boxes -> Labels]
    BY <1>1, <1>5 DEF SetText, Labels, TypeOK, GuiTypeOK, UiTypeOK
  <2>2. marked' \in [Boxes -> BOOLEAN]
    BY <1>1, <1>5, Zenon DEF SetText, Unmarked, TypeOK, GuiTypeOK
  <2>3. GuiTypeOK' /\ UiTypeOK'
    BY <1>1, <1>5, <2>1, <2>2, Zenon DEF SetText, TypeOK, GuiTypeOK, UiTypeOK
  <2>4. NetTypeOK' /\ LightTypeOK' /\ ServerTypeOK' /\ IoTypeOK' /\ CountersOK'
    BY <1>1, <1>5, SameTypes, Zenon DEF SetText
  <2>5. Registered' = Registered /\ InUse' = InUse
    BY <1>5 DEF SetText, Registered, InUse, serverVars, ioVars
  <2>6. CountsInv' /\ IoInv' /\ UiInv' /\ RegistryInv' /\ OneIdPerConnection'
    BY <1>5, <2>5, Zenon DEF TallyInv, SetText, CountsInv, IoInv, UiInv, RegistryInv,
       OneIdPerConnection, netVars, serverVars, ioVars
  <2>7. LookupsSafe' /\ Watched'
    BY <1>5, <2>5, Zenon DEF TallyInv, SetText, LookupsSafe, Watched, BeingBeaten,
       netVars, serverVars, ioVars
  <2>8. QED
    BY <2>3, <2>4, <2>6, <2>7 DEF TallyInv, TypeOK
<1>6. QED
  BY <1>2, <1>3, <1>4, <1>5, EnterNamePreserves, RenamedPreserves, SetIdsPreserves, Zenon
     DEF UiThread, AddNewClient

-----------------------------------------------------------------------------
(* The invariant holds when the program starts.                             *)
LEMMA TallyInit ==
  ASSUME Init
  PROVE  TallyInv
<1>1. /\ <<>> \in Seq(Request) /\ <<>> \in Seq(Line)
      /\ 0 \in 0 .. MaxConn /\ 0 \in 0 .. MaxFaults /\ 0 \in 0 .. MaxClicks
      /\ 0 \in 0 .. MaxEntries
  BY BoundsAssumption
<1>2. (CHOOSE d \in Devices : TRUE) \in Devices
  BY DevicesAssumption
<1>3. NetTypeOK
  BY <1>1, <1>2, Zenon DEF Init, NetTypeOK
<1>4. LightTypeOK /\ ServerTypeOK
  BY <1>1, Numbers, NamesAssumption, Zenon DEF Init, LightTypeOK, ServerTypeOK
<1>5. IoTypeOK
  BY Numbers, Zenon DEF Init, IoTypeOK, IoPcs, Reads
<1>6. GuiTypeOK
  <2>1. InitLabel \in [Boxes -> Labels]
    BY LabelsAssumption DEF Labels
  <2>2. popup \in [enabled : BOOLEAN, id : Ids \cup {NoId}]
    BY DEF Init
  <2>3. QED
    BY <2>1, <2>2, Numbers, NamesAssumption, Zenon DEF Init, GuiTypeOK
<1>7. UiTypeOK /\ CountersOK
  BY <1>1, Numbers, Zenon DEF Init, UiTypeOK, CountersOK, Reads
<1>8. Registered = {} /\ InUse = {}
  BY DEF Init, Registered, InUse
<1>9. CountsInv /\ IoInv /\ UiInv
  BY DEF Init, CountsInv, IoInv, UiInv, Handshake
<1>10. RegistryInv /\ LookupsSafe /\ OneIdPerConnection /\ Watched
  BY <1>8, Zenon DEF Init, RegistryInv, LookupsSafe, OneIdPerConnection, Watched
<1>11. QED
  BY <1>3, <1>4, <1>5, <1>6, <1>7, <1>9, <1>10 DEF TallyInv, TypeOK

(* The inductive invariant holds in every state of every behaviour.         *)
THEOREM TallyInvariant == Spec => []TallyInv
<1>1. TallyInv /\ [Next]_vars => TallyInv'
  <2> SUFFICES ASSUME TallyInv, [Next]_vars PROVE TallyInv'
    OBVIOUS
  <2>1. CASE Next
    BY <2>1, LightsPreserve, IoThreadPreserves, UiThreadPreserves, Zenon DEF Next
  <2>2. CASE UNCHANGED vars
    <3>1. TypeOK
      BY DEF TallyInv
    <3>2. TypeOK'
      BY <2>2, <3>1, SameTypes, Zenon DEF vars, TypeOK
    <3>3. UNCHANGED idVars /\ nConn <= nConn'
      BY <2>2, <3>1 DEF vars, idVars, netVars, serverVars, ioVars, guiVars, uiVars,
         TypeOK, NetTypeOK
    <3>4. QED
      BY <3>2, <3>3, SameIds
  <2>3. QED
    BY <2>1, <2>2
<1>2. QED
  BY <1>1, TallyInit, PTL DEF Spec

(* Every variable keeps its type.                                           *)
THEOREM TallyTypeCorrect == Spec => []TypeOK
<1>1. TallyInv => TypeOK
  BY DEF TallyInv
<1>2. QED
  BY <1>1, TallyInvariant, PTL

(* No thread looks up an id that is not registered.                         *)
THEOREM TallyLookupsSafe == Spec => []LookupsSafe
<1>1. TallyInv => LookupsSafe
  BY DEF TallyInv
<1>2. QED
  BY <1>1, TallyInvariant, PTL

(* Each registered client is watched by exactly one heartbeat chain, or has *)
(* been shut down.                                                          *)
THEOREM TallyWatched == Spec => []Watched
<1>1. TallyInv => Watched
  BY DEF TallyInv
<1>2. QED
  BY <1>1, TallyInvariant, PTL

-----------------------------------------------------------------------------
(***************************************************************************)
(* The tally server implements TallyRegistry: with the inductive invariant *)
(* every step of a thread is one step of the registry, or none.            *)
(***************************************************************************)
mapped == <<armed, InHeartbeat, ShutDown, boxId>>

(* Who is in a heartbeat is told by the io thread's locals.                 *)
LEMMA HeartbeatIsOne ==
  ASSUME TallyInv
  PROVE  /\ ioPc \in Beating => ioId \in Registered /\ guyConn[ioId] = ioConn
         /\ ioPc \in Beating /\ ~died => InHeartbeat = {ioId}
         /\ ioPc \notin Beating \/ died => InHeartbeat = {}
<1>1. ioPc \in Beating => ioId \in Registered /\ guyConn[ioId] = ioConn
  BY DEF TallyInv, IoInv, Beating, Handshake
<1>2. QED
  BY <1>1 DEF InHeartbeat, BeingBeaten, Registered

(* The registered clients are those the registry knows: no chain of         *)
(* heartbeats was dropped.                                                  *)
LEMMA KnownIsRegistered ==
  ASSUME TallyInv
  PROVE  Registry!Known = Registered
<1>1. armed \subseteq Registered
  BY Numbers DEF TallyInv, LookupsSafe, InUse, TypeOK, ServerTypeOK
<1>2. InHeartbeat \subseteq Registered /\ ShutDown \subseteq Registered
  BY HeartbeatIsOne DEF InHeartbeat, BeingBeaten, ShutDown
<1>3. ASSUME NEW id \in Registered
      PROVE  id \in armed \cup InHeartbeat \cup ShutDown
  BY DEF TallyInv, Watched, InHeartbeat, ShutDown, BeingBeaten, Registered
<1>4. QED
  BY <1>1, <1>2, <1>3 DEF Registry!Known

(* What leaves the registry alone.                                          *)
LEMMA Unmapped ==
  ASSUME UNCHANGED <<armed, guyConn, shut, boxId>>,
         UNCHANGED <<ioPc, ioId, died>> \/ (ioPc \notin Beating /\ ioPc' \notin Beating)
  PROVE  UNCHANGED mapped
<1>1. ShutDown' = ShutDown
  BY Zenon DEF ShutDown, Registered
<1>2. InHeartbeat' = InHeartbeat
  BY DEF InHeartbeat, BeingBeaten
<1>3. QED
  BY <1>1, <1>2 DEF mapped

LEMMA LightsUnmapped == ASSUME Lights PROVE UNCHANGED mapped
<1>1. UNCHANGED <<shut, serverVars, ioVars, guiVars>>
  BY DEF Lights, Connect, Answer, Close, PowerOff, PowerOn, Reset, netVars
<1>2. QED
  BY <1>1, Unmapped DEF serverVars, ioVars, guiVars

(* The io thread outside of heartbeats, registration and linking.           *)
LEMMA HandshakeUnmapped ==
  ASSUME HandleAccept \/ HandleAcceptError \/ GotId \/ GotAck \/ Match
         \/ SendState \/ PopupId
  PROVE  UNCHANGED mapped
<1>1. CASE HandleAccept
  BY <1>1, Unmapped DEF HandleAccept, Beating, guiVars
<1>2. CASE HandleAcceptError
  BY <1>2, Unmapped DEF HandleAcceptError, netVars, ioVars, guiVars
<1>3. CASE GotId
  BY <1>3, Unmapped DEF GotId, BackToPoll, Beating, guiVars
<1>4. CASE GotAck
  BY <1>4, Unmapped DEF GotAck, Beating, guiVars
<1>5. CASE Match
  BY <1>5, Unmapped DEF Match, Beating, netVars, serverVars
<1>6. CASE SendState
  BY <1>6, Unmapped DEF SendState, BackToPoll, Beating, guiVars
<1>7. CASE PopupId
  BY <1>7, Unmapped DEF PopupId, BackToPoll, Beating, netVars
<1>8. QED
  BY <1>1, <1>2, <1>3, <1>4, <1>5, <1>6, <1>7

(* A handshake that ends well registers a client.                           *)
LEMMA GotNameRegisters ==
  ASSUME TallyInv, TallyInv', GotName
  PROVE  Registry!Next
<1>1. currentId \in Ids \ Registered /\ InHeartbeat = {}
  BY HeartbeatIsOne DEF GotName, TallyInv, IoInv, Beating
<1>2. InHeartbeat' = {currentId}
  BY <1>1 DEF GotName, InHeartbeat, BeingBeaten, Beating, TallyInv, IoInv
<1>3. ShutDown' = ShutDown
  <2>1. ioConn \in Conns /\ ~shut[ioConn]
    BY DEF GotName, TallyInv, IoInv, RegistryInv, Handshake
  <2>2. guyConn' = [guyConn EXCEPT ![currentId] = ioConn]
        /\ guyConn \in [Ids -> Conns \cup {NoConn}] /\ shut' = shut
    BY DEF GotName, Insert, TallyInv, TypeOK, ServerTypeOK
  <2>3. QED
    BY <1>1, <2>1, <2>2, Numbers DEF ShutDown, Registered
<1>4. UNCHANGED <<armed, boxId>>
  BY DEF GotName, guiVars
<1>5. Registry!Register(currentId)
  BY <1>1, <1>2, <1>3, <1>4, KnownIsRegistered DEF Registry!Register
<1>6. QED
  BY <1>1, <1>5 DEF Registry!Next

(* A timer that expires starts a heartbeat.                                 *)
LEMMA HeartbeatBeats ==
  ASSUME TallyInv, NEW id \in Ids, HeartbeatForClient(id)
  PROVE  Registry!Next
<1>1. InHeartbeat = {} /\ ~died
  BY HeartbeatIsOne DEF HeartbeatForClient, TallyInv, IoInv, Beating
<1>2. InHeartbeat' = {id}
  BY <1>1 DEF HeartbeatForClient, InHeartbeat, BeingBeaten, Beating
<1>3. ShutDown' = ShutDown
  BY Zenon DEF HeartbeatForClient, ShutDown, Registered
<1>4. Registry!Beat(id)
  BY <1>1, <1>2, <1>3 DEF HeartbeatForClient, Registry!Beat, guiVars
<1>5. QED
  BY <1>4 DEF Registry!Next

(* The watchdog shuts down the one client that is being beaten.             *)
LEMMA WatchdogKills ==
  ASSUME TallyInv, Watchdog
  PROVE  Registry!Next
<1>1. ioId \in Registered /\ guyConn[ioId] = ioConn /\ InHeartbeat = {ioId}
  BY HeartbeatIsOne DEF Watchdog
<1>2. InHeartbeat' = {}
  BY DEF Watchdog, InHeartbeat
<1>3. ShutDown' = ShutDown \cup {ioId}
  <2>1. guyConn' = guyConn /\ shut' = [shut EXCEPT ![ioConn] = TRUE]
        /\ shut \in [Conns -> BOOLEAN] /\ guyConn \in [Ids -> Conns \cup {NoConn}]
    BY DEF Watchdog, serverVars, TallyInv, TypeOK, NetTypeOK, ServerTypeOK
  <2>2. \A id \in Registered : guyConn[id] \in Conns /\ (guyConn[id] = ioConn <=> id = ioId)
    BY <1>1, <2>1 DEF TallyInv, OneIdPerConnection, Registered
  <2>3. Registered' = Registered
    BY <2>1 DEF Registered
  <2>4. QED
    BY <1>1, <2>1, <2>2, <2>3 DEF ShutDown
<1>4. Registry!Die(ioId)
  BY <1>1, <1>2, <1>3 DEF Watchdog, Registry!Die, serverVars, guiVars
<1>5. QED
  BY <1>1, <1>4 DEF Registry!Next, Registered

(* A heartbeat that ends arms the timer again, or its client is dead.       *)
LEMMA HeartbeatEndAnswers ==
  ASSUME TallyInv, HeartbeatEnd
  PROVE  Registry!Next \/ UNCHANGED mapped
<1>1. ioPc \in Beating /\ ioId \in Registered
  BY HeartbeatIsOne DEF HeartbeatEnd
<1>2. InHeartbeat' = {}
  BY DEF HeartbeatEnd, BackToPoll, InHeartbeat, BeingBeaten, Beating
<1>3. UNCHANGED <<guyConn, shut, boxId>>
  BY DEF HeartbeatEnd
<1>4. ShutDown' = ShutDown
  BY <1>3, Zenon DEF ShutDown, Registered
<1>5. CASE died
  BY <1>2, <1>3, <1>4, <1>5, HeartbeatIsOne DEF HeartbeatEnd, Rearmed, mapped
<1>6. CASE ~died
  <2>1. InHeartbeat = {ioId} /\ armed' = armed \cup {ioId}
    BY <1>1, <1>6, HeartbeatIsOne DEF HeartbeatEnd, Rearmed
  <2>2. Registry!Answered(ioId)
    BY <1>2, <1>3, <1>4, <2>1 DEF Registry!Answered
  <2>3. QED
    BY <1>1, <2>2 DEF Registry!Next, Registered
<1>7. QED
  BY <1>5, <1>6

(* A link goes to a client that is registered.                              *)
LEMMA PlaceBoxLinks ==
  ASSUME TallyInv, PlaceBox
  PROVE  Registry!Next
<1>1. ioId \in Registered /\ ioBox \in Boxes
  BY DEF PlaceBox, TallyInv, IoInv, Handshake
<1>2. UNCHANGED <<armed, InHeartbeat, ShutDown>>
  <2>1. UNCHANGED <<armed, guyConn, shut>> /\ ioPc \notin Beating /\ ioPc' \notin Beating
    BY DEF PlaceBox, Beating, netVars, serverVars
  <2>2. ShutDown' = ShutDown
    BY <2>1, Zenon DEF ShutDown, Registered
  <2>3. QED
    BY <2>1, <2>2 DEF InHeartbeat, BeingBeaten
<1>3. Registry!Link(ioBox, ioId)
  BY <1>1, <1>2, KnownIsRegistered DEF PlaceBox, Registry!Link
<1>4. QED
  BY <1>1, <1>3 DEF Registry!Next, Registered

LEMMA SetIdsLinks ==
  ASSUME TallyInv, SetIds
  PROVE  Registry!Next
<1>1. uiId \in Registered /\ uiBox \in Boxes
  BY DEF SetIds, TallyInv, UiInv
<1>2. UNCHANGED <<armed, InHeartbeat, ShutDown>>
  <2>1. UNCHANGED <<armed, guyConn, shut, ioPc, ioId, died>>
    BY DEF SetIds, netVars, serverVars, ioVars
  <2>2. ShutDown' = ShutDown
    BY <2>1, Zenon DEF ShutDown, Registered
  <2>3. QED
    BY <2>1, <2>2 DEF InHeartbeat, BeingBeaten
<1>3. Registry!Link(uiBox, uiId)
  BY <1>1, <1>2, KnownIsRegistered DEF SetIds, Registry!Link
<1>4. QED
  BY <1>1, <1>3 DEF Registry!Next, Registered

(* The rest of the UI thread.                                               *)
LEMMA UiUnmapped ==
  ASSUME UiThread
  PROVE  SetIds \/ UNCHANGED mapped
<1>1. ASSUME NEW b \in Boxes, Click(b) \/ Report(b) PROVE UNCHANGED mapped
  BY <1>1, Unmapped DEF Click, Report, serverVars, ioVars
<1>2. ASSUME NEW p \in TypedPlaces, EnterPlace(p) PROVE UNCHANGED mapped
  BY <1>2, Unmapped DEF EnterPlace, netVars, serverVars, ioVars, guiVars
<1>3. ASSUME NEW n \in TypedNames, EnterName(n) PROVE UNCHANGED mapped
  BY <1>3, Unmapped DEF EnterName, serverVars, ioVars, guiVars
<1>4. CASE Renamed
  BY <1>4, Unmapped DEF Renamed, ioVars, guiVars
<1>5. CASE SetText
  BY <1>5, Unmapped DEF SetText, netVars, serverVars, ioVars
<1>6. QED
  BY <1>1, <1>2, <1>3, <1>4, <1>5 DEF UiThread, AddNewClient

(***************************************************************************)
(* The tally server implements its registry (TCPServer with the callbacks  *)
(* of main.cpp): one heartbeat at a time, the dead stay dead, and cameras  *)
(* are linked to registered clients only.                                  *)
(***************************************************************************)
THEOREM TallyImplementsRegistry == Spec => ImplementsRegistry
<1>1. Init => Registry!Init
  BY Numbers DEF Init, Registry!Init, InHeartbeat, BeingBeaten, Beating, ShutDown, Registered
<1>2. TallyInv /\ TallyInv' /\ [Next]_vars => [Registry!Next]_mapped
  <2> SUFFICES ASSUME TallyInv, TallyInv', [Next]_vars PROVE Registry!Next \/ UNCHANGED mapped
    OBVIOUS
  <2>1. CASE Lights
    BY <2>1, LightsUnmapped
  <2>2. CASE IoThread
    BY <2>2, HandshakeUnmapped, GotNameRegisters, HeartbeatBeats, HeartbeatEndAnswers,
       PlaceBoxLinks, Zenon DEF IoThread, IoHandler
  <2>3. CASE Watchdog
    BY <2>3, WatchdogKills
  <2>4. CASE UiThread
    BY <2>4, UiUnmapped, SetIdsLinks
  <2>5. CASE UNCHANGED vars
    BY <2>5, Unmapped DEF vars, netVars, serverVars, ioVars, guiVars
  <2>6. QED
    BY <2>1, <2>2, <2>3, <2>4, <2>5 DEF Next
<1>3. mapped = Registry!registryVars
  BY DEF mapped, Registry!registryVars
<1>4. TallyInv /\ TallyInv' /\ [Next]_vars => [Registry!Next]_(Registry!registryVars)
  BY <1>2, <1>3 DEF mapped, Registry!registryVars
<1>5. QED
  BY <1>1, <1>4, TallyInvariant, PTL DEF Spec, ImplementsRegistry, Registry!Spec

-----------------------------------------------------------------------------
(***************************************************************************)
(* The tally server as long as no light was renamed: one request or answer *)
(* is on its way at a time, between the io thread and the light it asked,  *)
(* so every read returns the line it waits for.  From that follow, for any *)
(* number of lights, connections and checkboxes, the properties that       *)
(* renaming would break: whose line it is, who is declared dead, who is    *)
(* marked and who is linked to which checkbox.                             *)
(***************************************************************************)

(* A light's socket is a connection of its own that is up, and so are the  *)
(* connections that are not made yet.                                      *)
SocketsInv ==
  /\ \A d \in Devices : sock[d] # NoConn =>
       sock[d] <= nConn /\ owner[sock[d]] = d /\ link[sock[d]] = "up"
  /\ \A c \in Conns : c > nConn => link[c] = "up"

(* Only the lights make and break connections.                             *)
LEMMA SocketsKept ==
  ASSUME TypeOK, SocketsInv, Next
  PROVE  SocketsInv'
<1> USE DEF SocketsInv
<1>1. CASE Lights
  <2> USE DEF TypeOK, NetTypeOK, LightTypeOK
  <2>1. ASSUME NEW d \in Devices, Connect(d) PROVE SocketsInv'
    <3>1. nConn + 1 \in Conns /\ nConn' = nConn + 1
      BY <2>1, Numbers DEF Connect
    <3>2. sock' = [sock EXCEPT ![d] = nConn + 1] /\ owner' = [owner EXCEPT ![nConn + 1] = d]
          /\ link' = [c \in Conns |-> IF c = sock[d] THEN "fin" ELSE link[c]]
      BY <2>1 DEF Connect
    <3>3. sock[d] <= nConn  BY Numbers
    <3>4. ASSUME NEW e \in Devices, sock'[e] # NoConn
          PROVE  sock'[e] <= nConn' /\ owner'[sock'[e]] = e /\ link'[sock'[e]] = "up"
      <4>1. CASE e = d
        BY <3>1, <3>2, <3>3, <4>1, Numbers
      <4>2. CASE e # d
        <5>1. sock'[e] = sock[e] /\ sock[e] \in Conns /\ sock[e] <= nConn
              /\ owner[sock[e]] = e /\ link[sock[e]] = "up"
          BY <3>2, <3>4, <4>2
        <5>2. sock[e] # sock[d]  BY <4>2, <5>1, Numbers
        <5> QED  BY <3>1, <3>2, <5>1, <5>2, Numbers
      <4> QED  BY <4>1, <4>2
    <3>5. ASSUME NEW c \in Conns, c > nConn' PROVE link'[c] = "up"
      BY <3>1, <3>2, <3>3, <3>5, Numbers
    <3> QED  BY <3>4, <3>5
  <2>2. ASSUME NEW d \in Devices, Answer(d) PROVE SocketsInv'
    BY <2>2 DEF Answer
  <2>3. ASSUME NEW d \in Devices, Close(d) PROVE SocketsInv'
    BY <2>3, Numbers DEF Close
  <2>4. ASSUME NEW d \in Devices, PowerOff(d) PROVE SocketsInv'
    BY <2>4, Numbers DEF PowerOff
  <2>5. ASSUME NEW d \in Devices, PowerOn(d) PROVE SocketsInv'
    BY <2>5 DEF PowerOn, netVars
  <2>6. ASSUME NEW c \in Conns, Reset(c) PROVE SocketsInv'
    BY <2>6, Numbers DEF Reset, lightVars
  <2> QED  BY <1>1, <2>1, <2>2, <2>3, <2>4, <2>5, <2>6 DEF Lights
<1>2. CASE ~Lights
  <2>1. UNCHANGED <<nConn, owner, link, sock>>
    BY <1>2, Zenon DEF Next, IoThread, IoHandler, Watchdog, UiThread, AddNewClient,
      HandleAccept, HandleAcceptError, GotId, GotAck, GotName, HeartbeatEnd, Match, PlaceBox,
      SendState, PopupId, HeartbeatForClient, Click, Report, EnterPlace, EnterName, Renamed,
      SetText, SetIds, netVars, lightVars
  <2> QED  BY <2>1
<1> QED  BY <1>1, <1>2

-----------------------------------------------------------------------------
(* A line is on its way only on the connection the io thread has asked,    *)
(* and it is the answer to what it asked.  Nothing may be on its way there *)
(* either, as a heartbeat may go unanswered, and a connection that is down *)
(* or shut may keep a request nobody will answer.                          *)
Pending(c) == ioPc \in Handshake \cup Beating /\ c = ioConn
AskedKind  == CASE ioPc = "askId" -> "2" [] ioPc = "askAck" -> "3" [] ioPc = "askName" -> "4"
                [] OTHER -> "h"
Open(c)    == link[c] = "up" /\ ~shut[c]
Silent(c)  == outbox[c] = <<>> /\ (Open(c) => inbox[c] = <<>>)
Asked(c)   == outbox[c] = <<>> /\ \E r \in Request :
                inbox[c] = <<r>> /\ r.kind # "5" /\ (Open(c) => r.kind = AskedKind)
Answered(c) == inbox[c] = <<>> /\ \E l \in Line :
                outbox[c] = <<l>> /\ (ioPc = "askName" => NameIn(l) = EepromName[owner[c]])
Idle(c)    == inbox[c] = <<>> /\ outbox[c] = <<>>
LineInv(c) ==
  /\ Idle(c) \/ Asked(c) \/ Answered(c)
  /\ ~Pending(c) => Silent(c)
NamesInv ==
  /\ ramName = EepromName /\ boxName = InitBoxName
  /\ ioPc \in {"firstBeat", "match", "placeBox"} => ioName \in {NoName, EepromName[owner[ioConn]]}
  /\ ioPc = "placeBox" => boxName[ioBox] = ioName
QuietInv ==
  /\ readBuffer = <<>> /\ ioRead = "recv" /\ uiPc = "idle"
  /\ \A c \in Conns : LineInv(c)
  /\ NamesInv

(* A queue of one.                                                         *)
LEMMA SequencesOfOne ==
  /\ \A l : Tail(<<l>>) = <<>> /\ Head(<<l>>) = l /\ <<l>> # <<>> /\ Len(<<l>>) = 1
  /\ \A l : Append(<<>>, l) = <<l>> /\ <<>> \o <<l>> = <<l>>
  /\ <<>> \o <<>> = <<>>
  OBVIOUS

(* A read takes the answer, or finds the connection down.                   *)
LEMMA QuietRead ==
  ASSUME TypeOK, QuietInv, ioConn \in Conns, Consume(ioRead, ioConn)
  PROVE  /\ readBuffer' = <<>>
         /\ outbox' = [outbox EXCEPT ![ioConn] = <<>>]
         /\ Open(ioConn) => inbox[ioConn] = <<>>
         /\ ioPc = "askName" =>
              NameIn(Returned(ioRead, ioConn)) \in {NoName, EepromName[owner[ioConn]]}
<1> DEFINE o == outbox[ioConn]
<1>1. o \in Seq(Line)  BY DEF TypeOK, NetTypeOK
<1>2. Filled(ioRead, ioConn) = o
  BY <1>1 DEF Filled, QuietInv
<1>3. o = <<>> \/ (inbox[ioConn] = <<>> /\ \E l \in Line : o = <<l>> /\
                     (ioPc = "askName" => NameIn(l) = EepromName[owner[ioConn]]))
  BY DEF QuietInv, LineInv, Idle, Asked, Answered
<1>4. Left(ioRead, ioConn) = <<>>
  BY <1>2, <1>3, SequencesOfOne DEF Left
<1>5. Open(ioConn) => inbox[ioConn] = <<>>
  BY <1>3 DEF Consume, CanReturn, QuietInv, Open
<1>6. ioPc = "askName" =>
        NameIn(Returned(ioRead, ioConn)) \in {NoName, EepromName[owner[ioConn]]}
  <2>1. NameIn(NoLine) = NoName
    BY DEF NameIn, NoLine
  <2> QED  BY <1>2, <1>3, <2>1, SequencesOfOne DEF Returned
<1> QED  BY <1>4, <1>5, <1>6 DEF Consume, QuietInv

(* Connections nobody is asked on, and none is asked after the step.        *)
LEMMA QuietRest ==
  ASSUME QuietInv, UNCHANGED <<inbox, link, shut>>, ioPc' \notin Handshake \cup Beating,
         outbox \in [Conns -> Seq(Line)],
         outbox' = outbox \/ outbox' = [outbox EXCEPT ![ioConn] = <<>>],
         \A c \in Conns :
           \/ Silent(c)
           \/ c = ioConn /\ outbox'[c] = <<>> /\ (Open(c) => inbox[c] = <<>>)
  PROVE  \A c \in Conns : LineInv(c)'
<1> SUFFICES ASSUME NEW c \in Conns PROVE LineInv(c)'
  OBVIOUS
<1>1. outbox'[c] = <<>> /\ (Open(c) => inbox[c] = <<>>)
  BY DEF Silent
<1>2. Open(c)' = Open(c)  BY Zenon DEF Open
<1>3. inbox[c] = <<>> \/ \E r \in Request : inbox[c] = <<r>> /\ r.kind # "5"
  BY DEF QuietInv, LineInv, Idle, Asked, Answered
<1>4. (Idle(c) \/ Asked(c))'
  BY <1>1, <1>2, <1>3, SequencesOfOne DEF Idle, Asked
<1> QED  BY <1>1, <1>2, <1>4 DEF LineInv, Silent, Pending

(* The io thread asks on c, where nothing is on its way.                    *)
LEMMA QuietAsk ==
  ASSUME TypeOK, QuietInv, UNCHANGED <<link, shut>>, NEW c \in Conns, ioConn' = c,
         ioPc' \in Handshake \cup Beating, NEW r \in Request,
         inbox' = Sent(inbox, c, r), r.kind = AskedKind', r.kind # "5",
         outbox'[c] = <<>>, Open(c) => inbox[c] = <<>>,
         \A x \in Conns \ {c} : Silent(x) /\ outbox'[x] = outbox[x]
  PROVE  \A x \in Conns : LineInv(x)'
<1> SUFFICES ASSUME NEW x \in Conns PROVE LineInv(x)'
  OBVIOUS
<1>1. \A y \in Conns : Open(y)' = Open(y)  BY Zenon DEF Open
<1>2. inbox[x] = <<>> \/ \E q \in Request : inbox[x] = <<q>> /\ q.kind # "5"
  BY DEF QuietInv, LineInv, Idle, Asked, Answered
<1>3. CASE x # c
  <2>1. inbox'[x] = inbox[x] /\ outbox'[x] = <<>> /\ (Open(x) => inbox[x] = <<>>)
    BY <1>3 DEF Sent, Silent, TypeOK, NetTypeOK
  <2>2. (Idle(x) \/ Asked(x))'
    BY <1>1, <1>2, <2>1, SequencesOfOne DEF Idle, Asked
  <2> QED  BY <1>1, <1>3, <2>1, <2>2 DEF LineInv, Silent, Pending
<1>4. CASE x = c /\ Open(c)
  <2>1. inbox'[c] = <<r>>
    BY <1>4, SequencesOfOne DEF Sent, Open, TypeOK, NetTypeOK
  <2>2. Asked(c)'
    BY <1>4, <2>1, SequencesOfOne DEF Asked
  <2> QED  BY <1>4, <2>2 DEF LineInv, Pending
<1>5. CASE x = c /\ ~Open(c)
  <2>1. inbox'[c] = inbox[c]
    BY <1>5 DEF Sent, Open
  <2>2. (Idle(c) \/ Asked(c))' /\ Silent(c)'
    BY <1>1, <1>2, <1>5, <2>1, SequencesOfOne DEF Idle, Asked, Silent
  <2> QED  BY <1>1, <1>5, <2>2 DEF LineInv
<1> QED  BY <1>3, <1>4, <1>5

(* The connection asked is one that was made.                              *)
LEMMA PendingMade ==
  ASSUME TallyInv
  PROVE  /\ ioPc # "poll" => ioConn \in Conns /\ ioConn <= nConn
         /\ \A c \in Conns : Pending(c) => c <= nConn
<1>1. nAcc \in Nat /\ nConn \in Nat /\ nAcc <= nConn
  BY DEF TallyInv, CountsInv, TypeOK, NetTypeOK, ServerTypeOK
<1>2. ioPc \in Handshake => ioConn \in Conns /\ ioConn = nAcc
  BY DEF TallyInv, IoInv
<1>3. ioPc \notin Handshake \cup {"poll"} => ioConn \in 1 .. nAcc
  BY DEF TallyInv, IoInv, OneIdPerConnection
<1>4. ioConn \in Conns \cup {NoConn}
  BY DEF TallyInv, TypeOK, IoTypeOK
<1> QED
  BY <1>1, <1>2, <1>3, <1>4, Numbers DEF Pending, Handshake, Beating

(* A step that moves no line, and at most takes a connection down.         *)
LEMMA QuietDown ==
  ASSUME TallyInv, QuietInv, UNCHANGED <<inbox, outbox, readBuffer, ioPc, ioRead, ioConn, ioName>>,
         UNCHANGED <<ioBox, uiPc, boxName, ramName>>, \A c \in Conns : Open(c)' => Open(c),
         \A c \in Conns : c <= nConn => owner'[c] = owner[c]
  PROVE  QuietInv'
<1>1. AskedKind' = AskedKind /\ \A c \in Conns : Pending(c)' = Pending(c)
  BY Zenon DEF AskedKind, Pending
<1>2. ASSUME NEW c \in Conns PROVE LineInv(c)'
  <2>1. Idle(c) => Idle(c)'  BY DEF Idle
  <2>2. Asked(c) => Asked(c)'  BY <1>1 DEF Asked
  <2>3. Answered(c) /\ Pending(c) => Answered(c)'
    BY PendingMade DEF Answered
  <2>4. Answered(c) => Pending(c)
    BY SequencesOfOne DEF Answered, QuietInv, LineInv, Silent
  <2>5. (~Pending(c) => Silent(c)) /\ (Idle(c) \/ Asked(c) \/ Answered(c))
    BY DEF QuietInv, LineInv
  <2>6. Silent(c) => Silent(c)'  BY DEF Silent
  <2> QED  BY <1>1, <2>1, <2>2, <2>3, <2>4, <2>5, <2>6 DEF LineInv
<1>3. NamesInv'
  BY PendingMade DEF QuietInv, NamesInv
<1> QED  BY <1>2, <1>3 DEF QuietInv

(* What the lights do.                                                      *)
LEMMA QuietLights ==
  ASSUME TallyInv, SocketsInv, QuietInv, Lights
  PROVE  QuietInv'
<1>1. UNCHANGED <<readBuffer, ioPc, ioRead, ioConn, ioName, ioBox, uiPc, boxName, shut>>
  BY DEF Lights, Connect, Answer, Close, PowerOff, PowerOn, Reset, serverVars, ioVars, uiVars,
         guiVars, netVars
<1>2. AskedKind' = AskedKind /\ \A c \in Conns : Pending(c)' = Pending(c)
  BY <1>1, Zenon DEF AskedKind, Pending
<1> USE DEF TallyInv, TypeOK, NetTypeOK, LightTypeOK
<1>5. ASSUME NEW d \in Devices, Connect(d) PROVE QuietInv'
  <2>1. \A c \in Conns : Open(c)' => Open(c)
    BY <1>5 DEF Connect, Open
  <2>2. \A c \in Conns : c <= nConn => owner'[c] = owner[c]
    BY <1>5, Numbers DEF Connect
  <2> QED  BY <1>1, QuietDown, <1>5, <2>1, <2>2 DEF Connect
<1>6. ASSUME NEW d \in Devices, Answer(d) PROVE QuietInv'
  <2>1. PICK c \in Conns : c = sock[d] /\ owner[c] = d /\ link[c] = "up"
    BY <1>6, Numbers DEF Answer, SocketsInv
  <2>2. PICK r \in Request : inbox[c] = <<r>> /\ r.kind # "5" /\ outbox[c] = <<>>
                             /\ (Open(c) => r.kind = AskedKind)
    BY <1>6, <2>1 DEF Answer, QuietInv, LineInv, Idle, Asked, Answered
  <2>3. inbox' = [inbox EXCEPT ![c] = <<>>] /\ ramName' = ramName
        /\ \E s \in Replies(d, r, c) :
             outbox' = IF shut[c] THEN outbox ELSE [outbox EXCEPT ![c] = s]
    <3>1. Head(inbox[c]) = r /\ Tail(inbox[c]) = <<>>  BY <2>2, SequencesOfOne
    <3>2. inbox' = [inbox EXCEPT ![c] = <<>>] /\ ramName' = ramName
      BY <1>6, <2>1, <2>2, <3>1 DEF Answer
    <3>3. PICK s \in Replies(d, r, c) :
            outbox' = IF shut[c] THEN outbox ELSE [outbox EXCEPT ![c] = outbox[c] \o s]
      BY <1>6, <2>1, <3>1, Zenon DEF Answer
    <3>4. <<>> \o s = s
      <4>1. s = <<>> \/ \E l : s = <<l>>
        BY <3>3, Zenon DEF Replies, CheckForEvents
      <4> QED  BY <4>1, SequencesOfOne
    <3> QED  BY <2>2, <3>2, <3>3, <3>4
  <2>4. UNCHANGED <<link, owner>>
    BY <1>6 DEF Answer
  <2>5. \A x \in Conns : Open(x)' = Open(x)
    BY <1>1, <2>4, Zenon DEF Open
  <2>6. ASSUME NEW x \in Conns \ {c} PROVE LineInv(x)'
    <3>1. UNCHANGED <<inbox[x], outbox[x]>>  BY <2>1, <2>3
    <3>2. LineInv(x)  BY DEF QuietInv
    <3>3. (Idle(x) => Idle(x)') /\ (Asked(x) => Asked(x)') /\ (Answered(x) => Answered(x)')
      BY <1>1, <1>2, <2>4, <2>5, <3>1 DEF Idle, Asked, Answered
    <3>4. Silent(x) => Silent(x)'
      BY <2>5, <3>1 DEF Silent
    <3> QED  BY <1>2, <2>5, <3>2, <3>3, <3>4 DEF LineInv
  <2>7. LineInv(c)'
    <3>1. CASE shut[c]
      <4>1. inbox'[c] = <<>> /\ outbox'[c] = <<>>  BY <2>1, <2>2, <2>3, <3>1
      <4>2. ~Open(c)'  BY <2>1, <2>5, <3>1 DEF Open
      <4>3. Idle(c)' /\ Silent(c)'  BY <4>1, <4>2 DEF Idle, Silent
      <4> QED  BY <4>2, <4>3 DEF LineInv
    <3>2. CASE ~shut[c]
      <4>1. Open(c) /\ inbox[c] # <<>>  BY <2>1, <2>2, <3>2, SequencesOfOne DEF Open
      <4>2. Pending(c)  BY <2>1, <4>1 DEF QuietInv, LineInv, Silent
      <4>3. Pending(c)'  BY <1>2, <2>1, <4>2, Zenon
      <4>4. PICK s \in Replies(d, r, c) : inbox'[c] = <<>> /\ outbox'[c] = s
        BY <2>1, <2>3, <3>2
      <4>5. CASE s = <<>>
        BY <4>3, <4>4, <4>5, Zenon DEF Idle, LineInv
      <4>6. CASE s # <<>>
        <5>1. PICK l : s = <<l>> /\ (r.kind = "h" \/ l = Reply(d, r, c))
                       /\ (r.kind = "h" => l = [from |-> c, kind |-> "beat", name |-> NoName])
          BY <4>4, <4>6, Zenon DEF Replies, CheckForEvents
        <5>2. l \in Line /\ (ioPc = "askName" => NameIn(l) = EepromName[owner[c]])
          BY <2>1, <2>2, <4>1, <5>1, NamesAssumption, Numbers
             DEF Reply, Line, Kinds, Request, AskedKind, NameIn, QuietInv, NamesInv
        <5>3. Answered(c)'
          BY <1>1, <2>4, <4>4, <5>1, <5>2, Zenon DEF Answered
        <5> QED  BY <4>3, <5>3, Zenon DEF LineInv
      <4> QED  BY <4>5, <4>6
    <3> QED  BY <3>1, <3>2
  <2>8. NamesInv'
    BY <1>1, <2>3, <2>4 DEF QuietInv, NamesInv
  <2>9. \A x \in Conns : LineInv(x)'
    BY <2>6, <2>7, Zenon
  <2> QED  BY <1>1, <2>8, <2>9, Zenon DEF QuietInv
<1>7. ASSUME NEW d \in Devices, Close(d) PROVE QuietInv'
  <2>1. \A c \in Conns : Open(c)' => Open(c)
    BY <1>7 DEF Close, Open
  <2> QED  BY <1>1, QuietDown, <1>7, <2>1 DEF Close
<1>8. ASSUME NEW d \in Devices, PowerOff(d) PROVE QuietInv'
  <2>1. \A c \in Conns : Open(c)' => Open(c)
    BY <1>8 DEF PowerOff, Open
  <2> QED  BY <1>1, QuietDown, <1>8, <2>1 DEF PowerOff
<1>9. ASSUME NEW d \in Devices, PowerOn(d) PROVE QuietInv'
  <2>1. ramName' = ramName
    BY <1>9, NamesAssumption DEF PowerOn, QuietInv, NamesInv
  <2> QED  BY <1>1, QuietDown, <1>9, <2>1 DEF PowerOn, Open, netVars
<1>10. ASSUME NEW c \in Conns, Reset(c) PROVE QuietInv'
  <2>1. \A x \in Conns : Open(x)' => Open(x)
    BY <1>10 DEF Reset, Open
  <2> QED  BY <1>1, QuietDown, <1>10, <2>1 DEF Reset, lightVars
<1> QED  BY <1>5, <1>6, <1>7, <1>8, <1>9, <1>10 DEF Lights

(* What the io thread asks and reads.                                      *)
LEMMA QuietAsking ==
  ASSUME TallyInv, QuietInv,
         HandleAccept \/ GotId \/ GotAck \/ GotName \/ \E id \in Ids : HeartbeatForClient(id)
  PROVE  QuietInv'
<1>1. UNCHANGED <<link, shut, owner, ramName, boxName, uiPc>>
  BY DEF HandleAccept, GotId, GotAck, GotName, HeartbeatForClient, BackToPoll, lightVars, guiVars,
         uiVars
<1>2. TypeOK /\ \A c \in Conns : ~Pending(c) => Silent(c)
  BY DEF TallyInv, QuietInv, LineInv
<1>3. \A k \in {"2", "3", "4", "h"} : Ask(k, NoName) \in Request /\ Ask(k, NoName).kind = k
  BY AskType, Numbers DEF Ask
<1>4. ASSUME NEW c \in Conns, ioConn' = c, ioPc' \in Handshake \cup Beating,
             inbox' = Sent(inbox, c, Ask(AskedKind', NoName)), AskedKind' \in {"2", "3", "4", "h"},
             readBuffer' = <<>>, ioRead' = "recv",
             outbox'[c] = <<>>, Open(c) => inbox[c] = <<>>,
             \A x \in Conns \ {c} : ~Pending(x) /\ outbox'[x] = outbox[x],
             ioPc' = "firstBeat" => ioName' \in {NoName, EepromName[owner[c]]}
      PROVE  QuietInv'
  <2>1. \A x \in Conns \ {c} : Silent(x) /\ outbox'[x] = outbox[x]
    BY <1>2, <1>4
  <2>2. Ask(AskedKind', NoName) \in Request /\ Ask(AskedKind', NoName).kind = AskedKind'
        /\ AskedKind' # "5"
    BY <1>3, <1>4
  <2>3. PICK r \in Request : r = Ask(AskedKind', NoName)
    BY <2>2
  <2>4. \A x \in Conns : LineInv(x)'
    BY <1>1, <1>2, <1>4, <2>1, <2>2, <2>3, QuietAsk
  <2>5. NamesInv'
    BY <1>1, <1>4 DEF QuietInv, NamesInv, Handshake, Beating
  <2> QED  BY <1>1, <1>4, <2>4, <2>5 DEF QuietInv
<1>5. CASE HandleAccept
  <2>1. nAcc + 1 \in Conns
    BY <1>5, Numbers DEF HandleAccept, TallyInv, TypeOK, NetTypeOK, ServerTypeOK
  <2>2. ioPc' = "askId" /\ ioConn' = nAcc + 1 /\ AskedKind' = "2" /\ ioRead' = "recv"
        /\ UNCHANGED <<outbox, readBuffer>> /\ inbox' = Sent(inbox, nAcc + 1, Ask("2", NoName))
    BY <1>5 DEF HandleAccept, Newest, AskedKind, StartRead, QuietInv
  <2>3. \A x \in Conns : ~Pending(x)
    BY <1>5 DEF HandleAccept, Pending, Handshake, Beating
  <2> QED  BY <1>2, <1>4, <2>1, <2>2, <2>3 DEF Silent, Handshake, QuietInv
<1>6. ASSUME NEW id \in Ids, HeartbeatForClient(id) PROVE QuietInv'
  <2>1. guyConn[id] \in Conns
    BY <1>6, Numbers DEF HeartbeatForClient, TallyInv, LookupsSafe, InUse, OneIdPerConnection,
         Registered, TypeOK, ServerTypeOK
  <2>2. ioPc' = "beat" /\ ioConn' = guyConn[id] /\ AskedKind' = "h" /\ ioRead' = "recv"
        /\ UNCHANGED <<outbox, readBuffer>> /\ inbox' = Sent(inbox, guyConn[id], Ask("h", NoName))
    BY <1>6 DEF HeartbeatForClient, Beat, AskedKind, StartRead, QuietInv
  <2>3. \A x \in Conns : ~Pending(x)
    BY <1>6 DEF HeartbeatForClient, Pending, Handshake, Beating
  <2> QED  BY <1>2, <1>4, <2>1, <2>2, <2>3 DEF Silent, Beating, QuietInv
<1>7. ASSUME ioPc \in Handshake, Consume(ioRead, ioConn)
      PROVE  /\ ioConn \in Conns /\ readBuffer' = <<>> /\ StartRead' = "recv"
             /\ outbox'[ioConn] = <<>> /\ (Open(ioConn) => inbox[ioConn] = <<>>)
             /\ \A x \in Conns \ {ioConn} : ~Pending(x) /\ outbox'[x] = outbox[x]
             /\ outbox' = [outbox EXCEPT ![ioConn] = <<>>] /\ outbox \in [Conns -> Seq(Line)]
             /\ ioPc = "askName" => NameIn(Returned(ioRead, ioConn)) \in {NoName, EepromName[owner[ioConn]]}
  <2>1. ioConn \in Conns
    BY <1>7 DEF TallyInv, IoInv
  <2>2. outbox \in [Conns -> Seq(Line)]
    BY DEF TallyInv, TypeOK, NetTypeOK
  <2> QED  BY <1>2, <1>7, <2>1, <2>2, QuietRead DEF Pending, StartRead
<1>8. CASE GotId
  <2> USE <1>8 DEF GotId
  <2>1. ioPc \in Handshake  BY DEF Handshake
  <2>2. CASE ioPc' = "askAck"
    <3>1. ioConn' = ioConn /\ AskedKind' = "3" /\ ioRead' = StartRead'
          /\ inbox' = Sent(inbox, ioConn, Ask("3", NoName))
      BY <2>2 DEF AskedKind, BackToPoll
    <3> QED  BY <1>4, <1>7, <2>1, <2>2, <3>1 DEF Handshake
  <2>3. CASE ioPc' # "askAck"
    <3>1. ioPc' = "poll" /\ inbox' = inbox /\ ioRead' = "recv"
      BY <2>3 DEF BackToPoll
    <3>2. ASSUME NEW c \in Conns
          PROVE  \/ Silent(c)
                 \/ c = ioConn /\ outbox'[c] = <<>> /\ (Open(c) => inbox[c] = <<>>)
      BY <1>2, <1>7, <2>1
    <3>3. \A c \in Conns : LineInv(c)'
      BY <1>1, <1>7, <2>1, <3>1, <3>2, QuietRest DEF Handshake, Beating
    <3>4. NamesInv'
      BY <1>1, <3>1 DEF QuietInv, NamesInv
    <3> QED  BY <1>1, <1>7, <2>1, <3>1, <3>3, <3>4 DEF QuietInv
  <2> QED  BY <2>2, <2>3
<1>9. CASE GotAck
  <2>1. ioPc \in Handshake /\ ioPc' = "askName" /\ ioConn' = ioConn /\ AskedKind' = "4"
        /\ Consume(ioRead, ioConn) /\ inbox' = Sent(inbox, ioConn, Ask("4", NoName))
        /\ ioRead' = StartRead'
    BY <1>9 DEF GotAck, AskedKind, Handshake
  <2> QED  BY <1>4, <1>7, <2>1 DEF Handshake
<1>10. CASE GotName
  <2>1. ioPc = "askName" /\ ioPc' = "firstBeat" /\ ioConn' = ioConn /\ AskedKind' = "h"
        /\ Consume(ioRead, ioConn) /\ inbox' = Sent(inbox, ioConn, Ask("h", NoName))
        /\ ioRead' = StartRead' /\ ioName' = NameIn(Returned(ioRead, ioConn))
    BY <1>10 DEF GotName, Beat, AskedKind
  <2> QED  BY <1>4, <1>7, <2>1 DEF Handshake, Beating
<1> QED  BY <1>5, <1>6, <1>8, <1>9, <1>10

(* The end of a heartbeat takes its answer.                                *)
LEMMA QuietHeartbeatEnd ==
  ASSUME TallyInv, QuietInv, HeartbeatEnd
  PROVE  QuietInv'
<1>1. ioPc \in Beating /\ ioConn \in Conns /\ Consume(ioRead, ioConn)
  BY Numbers DEF HeartbeatEnd, TallyInv, IoInv, Beating, Handshake, OneIdPerConnection, Registered,
                 TypeOK, ServerTypeOK
<1>2. readBuffer' = <<>> /\ outbox' = [outbox EXCEPT ![ioConn] = <<>>]
      /\ (Open(ioConn) => inbox[ioConn] = <<>>)
  BY <1>1, QuietRead DEF TallyInv
<1>3. ASSUME NEW c \in Conns
      PROVE  \/ Silent(c)
             \/ c = ioConn /\ outbox'[c] = <<>> /\ (Open(c) => inbox[c] = <<>>)
  BY <1>2 DEF QuietInv, LineInv, Pending, TallyInv, TypeOK, NetTypeOK
<1>4. UNCHANGED <<inbox, link, shut, ramName, boxName, uiPc, owner>> /\ ioRead' = "recv"
      /\ ioPc' \in {"match", "poll"}
  BY DEF HeartbeatEnd, BackToPoll, lightVars, uiVars
<1>5. \A c \in Conns : LineInv(c)'
  BY <1>2, <1>3, <1>4, QuietRest DEF Handshake, Beating, TallyInv, TypeOK, NetTypeOK
<1>6. NamesInv'
  BY <1>1, <1>4 DEF HeartbeatEnd, BackToPoll, QuietInv, NamesInv
<1> QED  BY <1>2, <1>4, <1>5, <1>6 DEF QuietInv

(* The rest of the handlers asks nothing.                                  *)
LEMMA QuietOthers ==
  ASSUME TallyInv, QuietInv, HandleAcceptError \/ Match \/ PlaceBox \/ SendState \/ PopupId
  PROVE  QuietInv'
<1>1. UNCHANGED <<inbox, outbox, link, shut, ramName, owner, readBuffer, uiPc>>
      /\ ioRead' = "recv"
  BY DEF HandleAcceptError, Match, PlaceBox, SendState, PopupId, BackToPoll, netVars, lightVars,
         serverVars, ioVars, uiVars, QuietInv
<1>2. ioPc \notin Handshake \cup Beating /\ ioPc' \notin Handshake \cup Beating
  BY DEF HandleAcceptError, Match, PlaceBox, SendState, PopupId, BackToPoll, ioVars,
         Handshake, Beating
<1>3. \A c \in Conns : Silent(c)
  BY <1>2 DEF QuietInv, LineInv, Pending
<1>4. \A c \in Conns : LineInv(c)'
  <2>1. outbox \in [Conns -> Seq(Line)]
    BY DEF TallyInv, TypeOK, NetTypeOK
  <2> QED  BY <1>1, <1>2, <1>3, <2>1, QuietRest
<1>5. NamesInv'
  <2>1. CASE HandleAcceptError
    BY <2>1 DEF HandleAcceptError, QuietInv, NamesInv, ioVars, guiVars, lightVars, netVars
  <2>2. CASE Match
    <3>1. Matching # {} => First(Matching) \in Boxes /\ boxName[First(Matching)] = ioName
      BY FirstType DEF Matching
    <3> QED  BY <2>2, <3>1 DEF Match, QuietInv, NamesInv, netVars, lightVars
  <2>3. CASE PlaceBox
    <3>1. boxName \in [Boxes -> Names] /\ boxName[ioBox] = ioName /\ ioBox \in Boxes
      BY <2>3 DEF PlaceBox, QuietInv, NamesInv, TallyInv, TypeOK, GuiTypeOK, IoInv
    <3>2. boxName' = boxName
      BY <2>3, <3>1 DEF PlaceBox
    <3> QED  BY <2>3, <3>2 DEF PlaceBox, QuietInv, NamesInv, netVars, lightVars
  <2>4. CASE SendState \/ PopupId
    BY <2>4 DEF SendState, PopupId, BackToPoll, QuietInv, NamesInv, guiVars, lightVars, netVars
  <2> QED  BY <2>1, <2>2, <2>3, <2>4
<1> QED  BY <1>1, <1>4, <1>5 DEF QuietInv

(* The watchdog, and what the user does without naming a light.            *)
LEMMA QuietUser ==
  ASSUME TallyInv, QuietInv, entries' = 0, Watchdog \/ UiThread
  PROVE  QuietInv'
<1>1. CASE Watchdog
  <2>1. \A c \in Conns : Open(c)' => Open(c)
    BY <1>1 DEF Watchdog, Open, TallyInv, TypeOK, NetTypeOK
  <2> QED  BY <1>1, <2>1, QuietDown DEF Watchdog, serverVars, guiVars, uiVars, lightVars
<1>2. CASE UiThread
  <2>1. UNCHANGED <<inbox, outbox, readBuffer, ioVars, uiPc, boxName, ramName, link, shut, owner>>
    BY <1>2 DEF UiThread, Click, Report, EnterPlace, EnterName, AddNewClient, Renamed,
         SetText, SetIds, netVars, lightVars, serverVars, guiVars, uiVars, QuietInv,
         TallyInv, TypeOK, CountersOK
  <2> QED  BY <2>1, QuietDown DEF ioVars, Open
<1> QED  BY <1>1, <1>2

-----------------------------------------------------------------------------
(* Names typed are counted.                                                 *)
LEMMA EntriesGrow ==
  ASSUME TypeOK, [Next]_vars, entries' = 0
  PROVE  entries = 0
<1>1. entries \in Nat  BY DEF TypeOK, CountersOK
<1> QED
  BY <1>1 DEF Next, Lights, IoThread, IoHandler, Watchdog, UiThread, AddNewClient,
    Connect, Answer, Close, PowerOff, PowerOn, Reset,
    HandleAccept, HandleAcceptError, GotId, GotAck, GotName, HeartbeatEnd, Match, PlaceBox,
    SendState, PopupId, HeartbeatForClient, Click, Report, EnterPlace, EnterName, Renamed,
    SetText, SetIds, counters, vars

(* The inductive invariant: the sockets, and the lines while nothing was   *)
(* renamed.                                                                *)
LinesInv == SocketsInv /\ (entries = 0 => QuietInv)

(* At the start nothing is on its way.                                     *)
LEMMA LinesInit == Init => LinesInv
<1> SUFFICES ASSUME Init PROVE LinesInv  OBVIOUS
<1>1. SocketsInv
  BY DEF Init, SocketsInv
<1>2. NamesInv  BY DEF Init, NamesInv
<1>3. \A c \in Conns : LineInv(c)
  BY DEF Init, LineInv, Idle, Silent, Pending, Handshake, Beating
<1> QED  BY <1>1, <1>2, <1>3 DEF LinesInv, QuietInv, Init

(* No step spoils it, unless it names a light.                             *)
LEMMA LinesNext == TallyInv /\ LinesInv /\ [Next]_vars => LinesInv'
<1>1. ASSUME TallyInv, LinesInv, Next PROVE LinesInv'
  <2>1. SocketsInv'  BY <1>1, SocketsKept DEF LinesInv, TallyInv
  <2>2. ASSUME entries' = 0 PROVE QuietInv'
    <3>1. entries = 0  BY <1>1, <2>2, EntriesGrow DEF TallyInv
    <3> QED
      BY <1>1, <2>2, <3>1, QuietLights, QuietAsking, QuietHeartbeatEnd, QuietOthers, QuietUser
         DEF LinesInv, Next, IoThread, IoHandler
  <2> QED  BY <2>1, <2>2 DEF LinesInv
<1>2. ASSUME LinesInv, UNCHANGED vars PROVE LinesInv'
  <2>1. UNCHANGED <<nConn, owner, link, shut, inbox, outbox, ramName, sock, readBuffer, entries,
                    ioPc, ioRead, ioConn, ioName, ioBox, uiPc, boxName>>
    BY <1>2 DEF vars, netVars, lightVars, serverVars, ioVars, guiVars, uiVars, counters
  <2> QED  BY <1>2, <2>1, Zenon DEF LinesInv, SocketsInv, QuietInv, LineInv, NamesInv, Idle, Asked,
             Answered, Silent, Open, Pending, AskedKind
<1> QED  BY <1>1, <1>2

(***************************************************************************)
(* As long as no light was renamed, at most one line or request is on its  *)
(* way on a connection, only where the io thread waits for it, and it      *)
(* answers what was asked (sendSyncMessage, ReadUntilSync).                *)
(***************************************************************************)
THEOREM TallyLines == Spec => []LinesInv
  BY LinesInit, LinesNext, TallyInvariant, PTL DEF Spec

(***************************************************************************)
(* Sharing readBuffer_ is harmless as long as no light was renamed         *)
(* (ReadUntilSync).                                                        *)
(***************************************************************************)
THEOREM TallyOwnLines == Spec => []OwnLines
<1>1. TallyInv /\ LinesInv => OwnLines
  <2>1. ASSUME QuietInv, NEW c \in Conns PROVE Len(inbox[c]) + Len(outbox[c]) <= 1
    <3>1. Len(<<>>) = 0  OBVIOUS
    <3>2. Idle(c) => Len(inbox[c]) = 0 /\ Len(outbox[c]) = 0
      BY <3>1 DEF Idle
    <3>3. Asked(c) => Len(inbox[c]) = 1 /\ Len(outbox[c]) = 0
      BY <3>1, SequencesOfOne, Zenon DEF Asked
    <3>4. Answered(c) => Len(inbox[c]) = 0 /\ Len(outbox[c]) = 1
      BY <3>1, SequencesOfOne, Zenon DEF Answered
    <3>5. Idle(c) \/ Asked(c) \/ Answered(c)
      BY <2>1 DEF QuietInv, LineInv
    <3>6. PICK m, n : m = Len(inbox[c]) /\ n = Len(outbox[c])  OBVIOUS
    <3>7. (m = 0 /\ n = 0) \/ (m = 1 /\ n = 0) \/ (m = 0 /\ n = 1)
      BY <3>2, <3>3, <3>4, <3>5, <3>6, Zenon
    <3>8. m + n <= 1  BY <3>7
    <3> QED  BY <3>6, <3>8, Zenon
  <2> QED  BY <2>1 DEF LinesInv, OwnLines, QuietInv
<1> QED  BY <1>1, TallyLines, TallyInvariant, PTL

(***************************************************************************)
(* A checkbox says disconnected only while its client is dead, as long as  *)
(* nobody uses the popup (OnClientDisconnected, NewClientConnected).       *)
(***************************************************************************)
THEOREM TallyMarkTrue == Spec => []MarkTrue
<1>1. Init => MarkTrue
  BY DEF Init, MarkTrue
<1>2. TallyInv /\ TallyInv' /\ LinesInv /\ MarkTrue /\ [Next]_vars => MarkTrue'
  <2> SUFFICES ASSUME TallyInv, TallyInv', LinesInv, MarkTrue, [Next]_vars,
                      entries' = 0, NEW b \in Boxes, marked'[b]
               PROVE  Dead(boxId[b])'
    BY DEF MarkTrue
  <2>1. entries = 0 /\ uiPc = "idle"  BY EntriesGrow DEF LinesInv, QuietInv, TallyInv
  <2>2. marked[b] => Dead(boxId[b])  BY <2>1 DEF MarkTrue
  <2>3. TypeOK /\ boxId[b] \in Ids \cup {NoId} /\ (Dead(boxId[b]) => boxId[b] \in Ids)
    BY DEF TallyInv, TypeOK, GuiTypeOK, Dead, Registered
  <2>4. ASSUME marked[b], boxId'[b] = boxId[b], guyConn' = guyConn,
               \A c \in Conns : shut[c] => shut'[c],
               BeingBeaten(boxId[b])' => BeingBeaten(boxId[b])
        PROVE  Dead(boxId[b])'
    <3>1. PICK id \in Ids : id = boxId[b] /\ Dead(id)
      BY <2>2, <2>3, <2>4
    <3>2. guyConn[id] \in Conns /\ shut[guyConn[id]] /\ ~BeingBeaten(id)
      BY <2>3, <3>1 DEF Dead, Registered, TypeOK, ServerTypeOK
    <3>3. ~BeingBeaten(id)'
      BY <2>4, <3>1, <3>2 DEF BeingBeaten
    <3> QED  BY <2>4, <3>1, <3>2, <3>3 DEF Dead, Registered
  <2>5. CASE Lights \/ HandleAcceptError \/ Watchdog \/ UiThread \/ UNCHANGED vars
    <3>1. UNCHANGED <<marked, boxId, guyConn, ioPc, ioId>>
      BY <2>1, <2>5 DEF Lights, Connect, Answer, Close, PowerOff, PowerOn, Reset, HandleAcceptError,
         Watchdog, UiThread, Click, Report, EnterPlace, EnterName, AddNewClient, Renamed, SetText,
         SetIds, vars, serverVars, ioVars, guiVars
    <3>2. \A c \in Conns : shut[c] => shut'[c]
      BY <2>3, <2>5 DEF Lights, Connect, Answer, Close, PowerOff, PowerOn, Reset, HandleAcceptError,
         Watchdog, UiThread, Click, Report, EnterPlace, EnterName, AddNewClient, Renamed, SetText,
         SetIds, vars, netVars, TypeOK, NetTypeOK
    <3> QED  BY <2>4, <3>1, <3>2 DEF BeingBeaten
  <2>6. CASE HandleAccept \/ GotId \/ GotAck \/ Match \/ SendState \/ PopupId
    <3>1. UNCHANGED <<marked, boxId, guyConn, shut>> /\ ioPc' \notin Beating
      BY <2>6 DEF HandleAccept, GotId, GotAck, Match, SendState, PopupId, BackToPoll, serverVars,
         guiVars, netVars, Beating
    <3> QED  BY <2>4, <3>1 DEF BeingBeaten
  <2>7. CASE GotName
    <3>1. UNCHANGED <<marked, boxId, shut>> /\ ioId' = currentId
          /\ guyConn' = [guyConn EXCEPT ![currentId] = ioConn]
      BY <2>7 DEF GotName, Insert, guiVars
    <3>2. currentId \notin Registered
      BY <2>7 DEF GotName, TallyInv, IoInv, Handshake
    <3>3. PICK id \in Ids : id = boxId[b] /\ Dead(id)
      BY <2>2, <2>3, <3>1
    <3>4. id # currentId /\ id \in Registered /\ shut[guyConn[id]]
      BY <3>2, <3>3 DEF Dead
    <3>5. guyConn'[id] = guyConn[id]
      BY <2>3, <3>1, <3>4 DEF TypeOK, ServerTypeOK
    <3> QED  BY <3>1, <3>3, <3>4, <3>5 DEF Dead, Registered, BeingBeaten
  <2>8. ASSUME NEW i \in Ids, HeartbeatForClient(i) PROVE Dead(boxId[b])'
    <3>1. UNCHANGED <<marked, boxId, guyConn, shut>> /\ ioId' = i /\ i \in armed
      BY <2>8 DEF HeartbeatForClient, guiVars
    <3>2. Dead(boxId[b]) => boxId[b] # i
      BY <3>1 DEF TallyInv, Watched, Dead
    <3> QED  BY <2>2, <2>4, <3>1, <3>2 DEF BeingBeaten
  <2>9. CASE HeartbeatEnd
    <3>1. UNCHANGED <<boxId, guyConn, shut>> /\ ioPc' \notin Beating
          /\ marked' = IF died THEN MarkOf(ioId) ELSE marked
      BY <2>9 DEF HeartbeatEnd, BackToPoll, Beating
    <3>2. marked[b] \/ (died /\ boxId[b] = ioId)
      BY <3>1 DEF MarkOf
    <3>3. CASE died /\ boxId[b] = ioId
      <4>1. ioId \in Registered /\ shut[guyConn[ioId]]
        BY <2>9, <3>3 DEF HeartbeatEnd, TallyInv, IoInv, Watched, BeingBeaten, Beating, Handshake
      <4> QED  BY <3>1, <3>3, <4>1 DEF Dead, Registered, BeingBeaten
    <3>4. CASE marked[b]
      BY <2>4, <3>1, <3>4 DEF BeingBeaten
    <3> QED  BY <3>2, <3>3, <3>4
  <2>10. CASE PlaceBox
    <3>1. UNCHANGED <<guyConn, shut>> /\ ioPc' \notin Beating
          /\ marked' = [marked EXCEPT ![ioBox] = FALSE] /\ boxId' = [boxId EXCEPT ![ioBox] = ioId]
      BY <2>10 DEF PlaceBox, Unmarked, Beating, serverVars, netVars
    <3>2. b # ioBox /\ marked[b] /\ boxId'[b] = boxId[b]
      BY <2>3, <3>1 DEF TypeOK, GuiTypeOK
    <3> QED  BY <2>4, <3>1, <3>2 DEF BeingBeaten
  <2> QED
    BY <2>5, <2>6, <2>7, <2>8, <2>9, <2>10 DEF Next, IoThread, IoHandler
<1> QED  BY <1>1, <1>2, TallyLines, TallyInvariant, PTL DEF Spec

(***************************************************************************)
(* A checkbox set up for a name is linked to no light but one of that      *)
(* name, as long as nobody uses the popup: the name the io thread holds is *)
(* the one saved in the light that is on its connection                    *)
(* (NewClientConnected).                                                   *)
(***************************************************************************)
THEOREM TallyLinkedByName == Spec => []LinkedByName
<1>1. Init => LinkedByName
  BY DEF Init, LinkedByName
<1>2. TallyInv /\ LinesInv /\ LinkedByName /\ [Next]_vars => LinkedByName'
  <2> SUFFICES ASSUME TallyInv, LinesInv, LinkedByName, [Next]_vars, entries' = 0,
                      NEW b \in Boxes, boxId'[b] # NoId, InitBoxName[b] # NoName
               PROVE  InitBoxName[b] = EepromName[owner'[guyConn'[boxId'[b]]]]
    BY DEF LinkedByName
  <2>1. TypeOK /\ entries = 0 /\ QuietInv /\ uiPc = "idle"
    BY EntriesGrow DEF LinesInv, QuietInv, TallyInv
  <2>2. boxId[b] # NoId => InitBoxName[b] = EepromName[owner[guyConn[boxId[b]]]]
    BY <2>1 DEF LinkedByName
  <2>3. boxId[b] # NoId => boxId[b] \in Registered /\ guyConn[boxId[b]] \in Conns
                           /\ guyConn[boxId[b]] <= nConn
    <3>1. nAcc \in Nat /\ nConn \in Nat /\ nAcc <= nConn /\ nConn <= MaxConn
      BY <2>1, Numbers DEF TypeOK, NetTypeOK, ServerTypeOK, TallyInv, CountsInv
    <3>2. ASSUME boxId[b] # NoId PROVE boxId[b] \in Registered /\ guyConn[boxId[b]] \in 1 .. nAcc
      BY <3>2 DEF TallyInv, LookupsSafe, InUse, OneIdPerConnection
    <3> QED  BY <3>1, <3>2, Numbers
  <2>4. ASSUME UNCHANGED <<owner, guyConn, boxId>>
        PROVE  InitBoxName[b] = EepromName[owner'[guyConn'[boxId'[b]]]]
    BY <2>2, <2>4
  <2>5. ASSUME NEW d \in Devices, Connect(d)
        PROVE  InitBoxName[b] = EepromName[owner'[guyConn'[boxId'[b]]]]
    <3>1. owner' = [owner EXCEPT ![nConn + 1] = d] /\ UNCHANGED <<guyConn, boxId>>
      BY <2>5 DEF Connect, serverVars, guiVars
    <3>2. nConn \in Nat /\ owner \in [Conns -> Devices]
      BY <2>1 DEF TypeOK, NetTypeOK
    <3>3. guyConn[boxId[b]] \in Conns /\ guyConn[boxId[b]] # nConn + 1
      BY <2>3, <3>1, <3>2, Numbers
    <3> QED  BY <2>2, <3>1, <3>2, <3>3
  <2>6. CASE GotName
    <3>1. UNCHANGED <<owner, boxId>> /\ guyConn' = [guyConn EXCEPT ![currentId] = ioConn]
          /\ currentId \notin Registered
      BY <2>6 DEF GotName, Insert, guiVars, TallyInv, IoInv, Handshake
    <3>2. guyConn'[boxId[b]] = guyConn[boxId[b]]
      BY <2>1, <2>3, <3>1 DEF TypeOK, ServerTypeOK, Registered
    <3> QED  BY <2>2, <3>1, <3>2
  <2>7. CASE PlaceBox
    <3>1. UNCHANGED <<owner, guyConn>> /\ boxId' = [boxId EXCEPT ![ioBox] = ioId]
      BY <2>7 DEF PlaceBox, netVars, serverVars
    <3>2. CASE b = ioBox
      <4>1. guyConn[ioId] = ioConn
        BY <2>7 DEF PlaceBox, TallyInv, IoInv, Handshake
      <4>2. InitBoxName[b] = ioName /\ ioName \in {NoName, EepromName[owner[ioConn]]}
        BY <2>1, <2>7, <3>2 DEF PlaceBox, QuietInv, NamesInv
      <4>3. boxId'[b] = ioId
        BY <2>1, <3>1, <3>2 DEF TypeOK, GuiTypeOK
      <4> QED  BY <3>1, <4>1, <4>2, <4>3
    <3>3. CASE b # ioBox
      BY <2>1, <2>2, <3>1, <3>3 DEF TypeOK, GuiTypeOK
    <3> QED  BY <3>2, <3>3
  <2>8. CASE ~ (\/ \E d \in Devices : Connect(d)
                \/ GotName \/ PlaceBox)
    <3>1. UNCHANGED <<owner, guyConn, boxId>>
      BY <2>1, <2>8 DEF Next, Lights, IoThread, IoHandler, Watchdog, UiThread, AddNewClient,
        Answer, Close, PowerOff, PowerOn, Reset,
        HandleAccept, HandleAcceptError, GotId, GotAck, HeartbeatEnd, Match,
        SendState, PopupId, HeartbeatForClient, Click, Report, EnterPlace, EnterName, Renamed,
        SetText, SetIds, netVars, serverVars, guiVars, vars
    <3> QED  BY <2>4, <3>1
  <2> QED  BY <2>5, <2>6, <2>7, <2>8
<1> QED  BY <1>1, <1>2, TallyLines, TallyInvariant, PTL DEF Spec
=============================================================================
