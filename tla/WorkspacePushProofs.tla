------------------------ MODULE WorkspacePushProofs -------------------------
(***************************************************************************)
(* The properties of WorkspacePush for every number of clients, pushes and *)
(* restarts, every set of documents and every ceiling: no call outlives    *)
(* its core, nothing but what was sent is buffered, a push replaces the    *)
(* map whole and once, and the one who pushed is told the truth about it.  *)
(***************************************************************************)
EXTENDS WorkspacePush, FiniteSetTheorems, SequenceTheorems, TLAPS

LEMMA TransferPairs ==
    /\ \A c \in Clients : \A k \in 1..PushBound[c] : <<c, k>> \in Transfers
    /\ \A t \in Transfers : \E c \in Clients : \E k \in 1..PushBound[c] : t = <<c, k>>
  BY DEF Transfers

-----------------------------------------------------------------------------
(* Types.                                                                  *)
Messages ==
    [transfer : Transfers, index : Nat, total : Nat, body : Slices, key : Keys, epoch : Nat]
ClientStates ==
    [pushes : Nat, stage : {"idle", "sending", "waiting", "answered"}, index : Nat,
     reply : {"none", "error", "null", "accepted"}]
PushRecords == [doc : Documents \cup {<< >>}, key : Keys]

TypeInv ==
    /\ core \in {"down", "attached", "serving"}
    /\ epoch \in Nat
    /\ topic \in Seq(Messages)
    /\ latest \in Messages \cup {NoCall}
    /\ DOMAIN assembler = Transfers
    /\ client \in [Clients -> ClientStates]
    /\ sent \in [Transfers -> PushRecords]
    /\ \A c \in Clients : client[c].pushes <= PushBound[c]
    /\ \A c \in Clients : client[c].stage # "idle" =>
        /\ TransferOf(c) \in Transfers
        /\ DocOf(c) \in Documents
        /\ client[c].index < Len(DocOf(c))
    /\ \A c \in Clients : \A k \in 1..PushBound[c] :
        k > client[c].pushes => sent[<<c, k>>] = NoPush

(* The topic.                                                              *)
LEMMA TopicTail ==
    ASSUME topic \in Seq(Messages), topic # << >>, topic' = Tail(topic)
    PROVE  /\ topic' \in Seq(Messages)
           /\ Head(topic) \in Written
           /\ Written' \subseteq Written
  BY DEF Written

LEMMA TopicAppend ==
    ASSUME topic \in Seq(Messages), NEW m \in Messages, topic' = Append(topic, m)
    PROVE  /\ topic' \in Seq(Messages)
           /\ Written' = Written \cup {m}
<1>1. topic' \in Seq(Messages) /\ Len(topic') = Len(topic) + 1
  OBVIOUS
<1>2. \A i \in 1..Len(topic) : topic'[i] = topic[i]
  OBVIOUS
<1>3. topic'[Len(topic) + 1] = m
  OBVIOUS
<1> QED BY <1>1, <1>2, <1>3 DEF Written

(* What a client writes.                                                   *)
LEMMA DocumentsAreWritten ==
    \A d \in Documents : d \in Seq(Slices) /\ d # << >> /\ Len(d) \in Nat /\ Len(d) > 0
  BY PushAssumption

LEMMA CallTyped ==
    ASSUME TypeInv, NEW c \in Clients, client[c].stage # "idle"
    PROVE  Call(c) \in Messages
<1>1. /\ TransferOf(c) \in Transfers /\ DocOf(c) \in Documents
      /\ client[c].index \in Nat /\ client[c].index < Len(DocOf(c)) /\ epoch \in Nat
  BY DEF TypeInv, ClientStates
<1>2. sent[TransferOf(c)].key \in Keys
  BY <1>1 DEF TypeInv, PushRecords
<1>3. DocOf(c) \in Seq(Slices) /\ Len(DocOf(c)) \in Nat
  BY <1>1, DocumentsAreWritten
<1>4. DocOf(c)[client[c].index + 1] \in Slices
  <2> PICK d : d = DocOf(c)
    OBVIOUS
  <2> QED BY <1>1, <1>3
<1> QED BY <1>1, <1>2, <1>3, <1>4 DEF Call, Messages

(* A step after which every client has made as many pushes, and goes on     *)
(* with the one it was at, if with any.                                    *)
SamePushes ==
    /\ UNCHANGED sent
    /\ client' \in [Clients -> ClientStates]
    /\ \A c \in Clients :
        /\ client'[c].pushes = client[c].pushes
        /\ client'[c].stage # "idle" =>
            client[c].stage # "idle" /\ client'[c].index < Len(DocOf(c))

ClientsTyped ==
    /\ client \in [Clients -> ClientStates]
    /\ sent \in [Transfers -> PushRecords]
    /\ \A c \in Clients : client[c].pushes <= PushBound[c]
    /\ \A c \in Clients : client[c].stage # "idle" =>
        /\ TransferOf(c) \in Transfers
        /\ DocOf(c) \in Documents
        /\ client[c].index < Len(DocOf(c))
    /\ \A c \in Clients : \A k \in 1..PushBound[c] :
        k > client[c].pushes => sent[<<c, k>>] = NoPush

LEMMA SamePushesTyped == ASSUME TypeInv, SamePushes PROVE ClientsTyped'
<1>1. \A c \in Clients : TransferOf(c)' = TransferOf(c) /\ DocOf(c)' = DocOf(c)
  BY DEF SamePushes, TransferOf, DocOf
<1> QED BY <1>1 DEF TypeInv, SamePushes, ClientsTyped

LEMMA PushTyped ==
    ASSUME TypeInv, NEW c \in Clients, NEW d \in Documents, NEW k \in Keys, Push(c, d, k)
    PROVE  ClientsTyped'
<1> DEFINE n == client[c].pushes + 1
           t == <<c, n>>
<1>1. /\ client[c] \in ClientStates /\ n \in 1..PushBound[c] /\ n \in Nat
      /\ client[c].pushes \in Nat /\ client[c].pushes < PushBound[c]
  <2>1. client[c] \in ClientStates /\ client[c].pushes \in Nat /\ client[c].pushes < PushBound[c]
    BY DEF Push, TypeInv, ClientStates
  <2>2. PushBound[c] \in Nat
    BY PushAssumption
  <2> QED BY <2>1, <2>2
<1>2. t \in Transfers
  BY <1>1, TransferPairs
<1>3. sent' = [sent EXCEPT ![t] = [doc |-> d, key |-> k]] /\ sent' \in [Transfers -> PushRecords]
  BY <1>2 DEF Push, TypeInv, PushRecords
<1>4. client' = [client EXCEPT ![c] = [stage |-> "sending", index |-> 0, reply |-> "none",
                                      pushes |-> n]]
  BY DEF Push
<1>5. /\ client' \in [Clients -> ClientStates]
      /\ client'[c].stage = "sending" /\ client'[c].index = 0 /\ client'[c].pushes = n
      /\ \A b \in Clients \ {c} : client'[b] = client[b]
  BY <1>1, <1>4 DEF TypeInv, ClientStates
<1>6. TransferOf(c)' = t /\ DocOf(c)' = d
  BY <1>2, <1>3, <1>5 DEF TransferOf, DocOf, TypeInv
<1>7. \A b \in Clients \ {c} : /\ TransferOf(b)' = TransferOf(b)
                              /\ TransferOf(b) # t
  BY <1>5 DEF TransferOf
<1>8. \A b \in Clients \ {c} : client[b].stage # "idle" => DocOf(b)' = DocOf(b)
  BY <1>3, <1>7 DEF DocOf, TypeInv
<1>9. \A b \in Clients : client'[b].stage # "idle" =>
        TransferOf(b)' \in Transfers /\ DocOf(b)' \in Documents
        /\ client'[b].index < Len(DocOf(b)')
  <2> TAKE b \in Clients
  <2>1. CASE b = c
    BY <1>2, <1>5, <1>6, <2>1, DocumentsAreWritten
  <2>2. CASE b # c
    BY <1>5, <1>7, <1>8, <2>2 DEF TypeInv
  <2> QED BY <2>1, <2>2
<1>10. \A b \in Clients : client'[b].pushes <= PushBound[b]
  BY <1>1, <1>5 DEF TypeInv
<1>11. \A b \in Clients : \A j \in 1..PushBound[b] :
        j > client'[b].pushes => sent'[<<b, j>>] = NoPush
  <2> SUFFICES ASSUME NEW b \in Clients, NEW j \in 1..PushBound[b], j > client'[b].pushes
               PROVE  sent'[<<b, j>>] = NoPush
    OBVIOUS
  <2>1. <<b, j>> \in Transfers /\ <<b, j>> # t /\ j > client[b].pushes
    BY <1>1, <1>5, TransferPairs DEF TypeInv, ClientStates
  <2> QED BY <1>3, <2>1 DEF TypeInv
<1> QED BY <1>3, <1>5, <1>9, <1>10, <1>11 DEF ClientsTyped

LEMMA SendSame == ASSUME TypeInv, NEW c \in Clients, Send(c) PROVE SamePushes
  BY DEF Send, TypeInv, ClientStates, SamePushes

LEMMA GiveUpSame == ASSUME TypeInv, NEW c \in Clients, GiveUp(c) PROVE SamePushes
  BY DEF GiveUp, TypeInv, ClientStates, SamePushes, pushVars

LEMMA ReceiveSame == ASSUME TypeInv, NEW c \in Clients, Receive(c) PROVE SamePushes
  BY DocumentsAreWritten DEF Receive, TypeInv, ClientStates, SamePushes

LEMMA AnswerSame ==
    ASSUME TypeInv, NEW m, NEW r \in {"error", "null", "accepted"}, Answer(m, r), UNCHANGED sent
    PROVE  SamePushes
  BY DEF Answer, TypeInv, ClientStates, SamePushes

LEMMA TypeInvInit == Init => TypeInv
<1> SUFFICES ASSUME Init PROVE TypeInv
  OBVIOUS
<1>1. client \in [Clients -> ClientStates] /\ \A c \in Clients : client[c].pushes = 0
  BY DEF Init, ClientStates
<1>2. sent \in [Transfers -> PushRecords]
  BY PushAssumption DEF Init, PushRecords, NoPush
<1>3. \A c \in Clients : client[c].stage = "idle" /\ client[c].pushes <= PushBound[c]
  BY <1>1, PushAssumption DEF Init
<1>4. \A c \in Clients : \A k \in 1..PushBound[c] : sent[<<c, k>>] = NoPush
  BY TransferPairs DEF Init
<1> QED BY <1>1, <1>2, <1>3, <1>4 DEF Init, TypeInv

(* What is taken from the topic is a message like any other, and the entry  *)
(* it is filed under stays within the assembler.                           *)
LEMMA TakeTyped ==
    ASSUME TypeInv, NEW m, Take(m)
    PROVE  /\ m \in Messages /\ m \in Written
           /\ topic' \in Seq(Messages) /\ Written' \subseteq Written
           /\ core = "serving"
           /\ UNCHANGED <<latest, core, epoch, sent, told>>
<1>1. /\ topic \in Seq(Messages) /\ topic # << >> /\ topic' = Tail(topic) /\ m = Head(topic)
      /\ core = "serving" /\ UNCHANGED <<latest, core, epoch, sent, told>>
  BY DEF Take, TypeInv
<1>2. m \in Messages
  BY <1>1
<1> QED BY <1>1, <1>2, TopicTail

LEMMA HandleSame ==
    ASSUME TypeInv, NEW m, Handle(m)
    PROVE  /\ Take(m)
           /\ DOMAIN assembler' = Transfers
           /\ SamePushes
           /\ \E r \in {"error", "null", "accepted"} : Answer(m, r)
<1>1. Take(m) /\ UNCHANGED sent
  BY DEF Handle, RefuseKey, RefuseChunk, Buffer, RefuseDocument, SetWorkspace, Take
<1>2. DOMAIN assembler' = Transfers
  BY DEF Handle, RefuseKey, RefuseChunk, Buffer, RefuseDocument, SetWorkspace, Settle, TypeInv
<1>3. \E r \in {"error", "null", "accepted"} : Answer(m, r)
  BY DEF Handle, RefuseKey, RefuseChunk, Buffer, RefuseDocument, SetWorkspace
<1> QED BY <1>1, <1>2, <1>3, AnswerSame

LEMMA TypeInvStep == TypeInv /\ [Next]_vars => TypeInv'
<1> SUFFICES ASSUME TypeInv, [Next]_vars PROVE TypeInv'
  OBVIOUS
<1>1. ASSUME UNCHANGED pushVars PROVE ClientsTyped'
  BY <1>1 DEF pushVars, TypeInv, ClientsTyped, TransferOf, DocOf
<1>2. ASSUME ClientsTyped', UNCHANGED <<busVars, coreVars>> PROVE TypeInv'
  BY <1>2 DEF busVars, coreVars, TypeInv, ClientsTyped
<1>3. ASSUME NEW c \in Clients, NEW p \in Pushes, Push(c, p[1], p[2]) PROVE TypeInv'
  BY <1>2, <1>3, PushTyped, PushAssumption DEF Push
<1>4. ASSUME NEW c \in Clients, Send(c) PROVE TypeInv'
  <2>1. Call(c) \in Messages
    BY <1>4, CallTyped DEF Send
  <2>2. topic' \in Seq(Messages) /\ latest' \in Messages
    BY <1>4, <2>1, TopicAppend DEF Send, TypeInv
  <2> QED BY <1>4, <2>2, SendSame, SamePushesTyped DEF Send, coreVars, TypeInv, ClientsTyped
<1>5. ASSUME NEW c \in Clients, GiveUp(c) \/ Receive(c) PROVE TypeInv'
  BY <1>2, <1>5, GiveUpSame, ReceiveSame, SamePushesTyped DEF GiveUp, Receive
<1>6. ASSUME NEW m \in Written, Handle(m) PROVE TypeInv'
  <2>1. ClientsTyped'
    BY <1>6, HandleSame, SamePushesTyped
  <2> QED BY <1>6, <2>1, HandleSame, TakeTyped DEF TypeInv, ClientsTyped
<1>7. CASE Lose \/ Discard
  <2>1. topic' \in Seq(Messages)
    BY <1>7, TopicTail DEF Lose, Discard, TypeInv
  <2> QED BY <1>1, <1>7, <2>1 DEF Lose, Discard, coreVars, TypeInv, ClientsTyped
<1>8. CASE Crash
  BY <1>1, <1>8 DEF Crash, TypeInv, ClientsTyped
<1>9. CASE Attach
  <2>1. topic' \in Seq(Messages) /\ epoch' \in Nat
    BY <1>9 DEF Attach, TypeInv
  <2> QED BY <1>1, <1>9, <2>1 DEF Attach, TypeInv, ClientsTyped
<1>10. CASE Serve
  BY <1>1, <1>10 DEF Serve, busVars, TypeInv, ClientsTyped
<1>11. ASSUME NEW r \in Robots, Release(r) \/ \E p \in Places : Grant(r, p) PROVE TypeInv'
  BY <1>1, <1>11 DEF Release, Grant, busVars, TypeInv, ClientsTyped
<1>12. CASE UNCHANGED vars
  BY <1>1, <1>2, <1>12 DEF vars
<1> QED BY <1>3, <1>4, <1>5, <1>6, <1>7, <1>8, <1>9, <1>10, <1>11, <1>12 DEF Next

-----------------------------------------------------------------------------
(* Epochs: a core that serves has only calls made to itself before it.      *)
EpochInv == core = "serving" => \A m \in Written : m.epoch = epoch

LEMMA CallsAppended ==
    ASSUME TypeInv, NEW c \in Clients, Send(c)
    PROVE  /\ Call(c) \in Messages
           /\ latest' = Call(c)
           /\ Written' \subseteq Written \cup {Call(c)}
           /\ core # "down" => topic' = Append(topic, Call(c))
           /\ core = "down" => topic' = topic
<1>1. Call(c) \in Messages
  BY CallTyped DEF Send
<1>2. CASE core = "down"
  BY <1>1, <1>2 DEF Send, Written
<1>3. CASE core # "down"
  BY <1>1, <1>3, TopicAppend DEF Send, TypeInv
<1> QED BY <1>2, <1>3

(* The steps that leave the topic as it is, or shorter.                     *)
LEMMA WrittenShrinks ==
    ASSUME TypeInv,
           \/ UNCHANGED topic
           \/ topic' = << >>
           \/ topic # << >> /\ topic' = Tail(topic)
    PROVE  Written' \subseteq Written
  BY TopicTail DEF TypeInv, Written

LEMMA NothingWritten == topic = << >> => Written = {}
  BY DEF Written

LEMMA EpochInvStep == TypeInv /\ EpochInv /\ [Next]_vars => EpochInv'
<1> SUFFICES ASSUME TypeInv, EpochInv, [Next]_vars PROVE EpochInv'
  OBVIOUS
<1>1. ASSUME Written' \subseteq Written, UNCHANGED <<core, epoch>> PROVE EpochInv'
  BY <1>1 DEF EpochInv
<1>2. ASSUME core' # "serving" PROVE EpochInv'
  BY <1>2 DEF EpochInv
<1>3. ASSUME NEW c \in Clients, Send(c) PROVE EpochInv'
  <2>1. Written' \subseteq Written \cup {Call(c)} /\ UNCHANGED <<core, epoch>>
    BY <1>3, CallsAppended DEF Send, coreVars
  <2> QED BY <2>1 DEF EpochInv, Call
<1>4. ASSUME NEW m \in Written, Handle(m) PROVE EpochInv'
  BY <1>1, <1>4, HandleSame, TakeTyped
<1>5. CASE Lose \/ Discard
  BY <1>1, <1>5, WrittenShrinks DEF Lose, Discard, coreVars
<1>6. CASE Crash \/ Attach
  BY <1>2, <1>6 DEF Crash, Attach
<1>7. CASE Serve
  BY <1>7, NothingWritten DEF Serve, EpochInv, busVars, Written
<1>8. ASSUME UNCHANGED <<topic, core, epoch>> PROVE EpochInv'
  BY <1>1, <1>8, WrittenShrinks
<1> QED
  BY <1>3, <1>4, <1>5, <1>6, <1>7, <1>8
  DEF Next, Push, GiveUp, Receive, Release, Grant, vars, busVars, coreVars

(* No call made to one core is carried out by the next: the requests that   *)
(* a restarted core finds are discarded (discard_requests_predating_this_  *)
(* core).                                                                  *)
THEOREM NothingStaleRunsHolds == Spec => NothingStaleRuns
<1>1. Init => TypeInv /\ EpochInv
  BY TypeInvInit DEF Init, EpochInv, Written
<1>2. TypeInv /\ EpochInv /\ [Next]_vars => TypeInv' /\ EpochInv'
  BY TypeInvStep, EpochInvStep
<1>3. TypeInv /\ EpochInv /\ [Next]_vars
        => [\A m \in Written : Handle(m) => m.epoch = epoch]_vars
  BY HandleSame DEF EpochInv, Take
<1> QED BY <1>1, <1>2, <1>3, PTL DEF Spec, NothingStaleRuns

-----------------------------------------------------------------------------
(* What is written, remembered by a segment or buffered was sent.           *)
AsSent(m) ==
    LET push == sent[m.transfer] IN
    /\ m.transfer \in Transfers
    /\ push.doc \in Documents
    /\ m.total = Len(push.doc) /\ m.index \in 0..m.total - 1
    /\ m.body = push.doc[m.index + 1] /\ m.key = push.key

Buffered(t) ==
    LET push == sent[t] IN
    /\ push.doc \in Documents /\ push.key = OperatorKey
    /\ assembler[t].total = Len(push.doc) /\ assembler[t].key = OperatorKey
    /\ \A i \in DOMAIN assembler[t].chunks :
        /\ i \in 0..assembler[t].total - 1
        /\ assembler[t].chunks[i] = push.doc[i + 1]

SentInv ==
    /\ \A m \in Written : AsSent(m)
    /\ latest # NoCall => AsSent(latest)
    /\ \A t \in Transfers : assembler[t].total # 0 => Buffered(t)

LEMMA CallAsSent ==
    ASSUME TypeInv, NEW c \in Clients, client[c].stage # "idle" PROVE AsSent(Call(c))
<1>1. /\ TransferOf(c) \in Transfers /\ DocOf(c) \in Documents
      /\ client[c].index \in Nat /\ client[c].index < Len(DocOf(c))
  BY DEF TypeInv, ClientStates
<1>2. Len(DocOf(c)) \in Nat
  BY <1>1, DocumentsAreWritten
<1> QED BY <1>1, <1>2 DEF Call, AsSent, DocOf

(* The entry a call is filed under, and what it becomes.                    *)
LEMMA EntryAsSent ==
    ASSUME TypeInv, SentInv, NEW m \in Written, Authorised(m.key)
    PROVE  LET push == sent[m.transfer] IN
           /\ m.transfer \in Transfers
           /\ push.doc \in Documents /\ push.key = OperatorKey
           /\ m.total = Len(push.doc) /\ m.total \in Nat \ {0} /\ m.index \in 0..m.total - 1
           /\ Grown(m).total = m.total /\ Grown(m).key = OperatorKey
           /\ DOMAIN Grown(m).chunks = DOMAIN Entry(m).chunks \cup {m.index}
           /\ \A i \in DOMAIN Grown(m).chunks :
                i \in 0..m.total - 1 /\ Grown(m).chunks[i] = push.doc[i + 1]
<1> DEFINE push == sent[m.transfer]
<1>1. /\ m.transfer \in Transfers /\ push.doc \in Documents /\ push.key = OperatorKey
      /\ m.total = Len(push.doc) /\ m.index \in 0..m.total - 1
      /\ m.body = push.doc[m.index + 1] /\ m.key = OperatorKey
  BY DEF SentInv, AsSent, Authorised
<1>2. m.total \in Nat \ {0}
  BY <1>1, DocumentsAreWritten
<1>3. /\ Entry(m).total = m.total /\ Entry(m).key = OperatorKey
      /\ \A i \in DOMAIN Entry(m).chunks :
            i \in 0..m.total - 1 /\ Entry(m).chunks[i] = push.doc[i + 1]
  <2>1. CASE assembler[m.transfer].total = 0
    BY <1>1, <2>1 DEF Entry
  <2>2. CASE assembler[m.transfer].total # 0
    BY <1>1, <2>2 DEF Entry, SentInv, Buffered
  <2> QED BY <2>1, <2>2
<1>4. /\ Grown(m).total = Entry(m).total /\ Grown(m).key = Entry(m).key
      /\ Grown(m).chunks = Insert(Entry(m).chunks, m.index, m.body)
  BY DEF Grown
<1> HIDE DEF push
<1>5. /\ DOMAIN Grown(m).chunks = DOMAIN Entry(m).chunks \cup {m.index}
      /\ \A i \in DOMAIN Grown(m).chunks :
            i \in 0..m.total - 1 /\ Grown(m).chunks[i] = push.doc[i + 1]
  BY <1>1, <1>3, <1>4 DEF Insert
<1> QED BY <1>1, <1>2, <1>3, <1>4, <1>5 DEF push

(* A push begins under a number nothing was sent under before.              *)
LEMMA PushLeavesSent ==
    ASSUME TypeInv, NEW c \in Clients, NEW d, NEW k, Push(c, d, k)
    PROVE  \A t \in Transfers : sent[t].doc \in Documents => sent'[t] = sent[t]
<1> DEFINE n == client[c].pushes + 1
<1>1. n \in 1..PushBound[c] /\ n > client[c].pushes
  <2>1. client[c].pushes \in Nat /\ client[c].pushes < PushBound[c]
    BY DEF Push, TypeInv, ClientStates
  <2>2. PushBound[c] \in Nat
    BY PushAssumption
  <2> QED BY <2>1, <2>2
<1>2. sent[<<c, n>>].doc = << >>
  BY <1>1 DEF TypeInv, NoPush
<1>3. << >> \notin Documents
  BY PushAssumption
<1> QED BY <1>1, <1>2, <1>3 DEF Push, TypeInv

LEMMA SentInvStep == TypeInv /\ SentInv /\ [Next]_vars => SentInv'
<1> SUFFICES ASSUME TypeInv, SentInv, [Next]_vars PROVE SentInv'
  OBVIOUS
<1>1. ASSUME Written' \subseteq Written, UNCHANGED <<latest, sent>>,
             \A t \in Transfers : assembler'[t].total # 0 => Buffered(t)'
      PROVE  SentInv'
  BY <1>1 DEF SentInv, AsSent
<1>2. ASSUME Written' \subseteq Written, UNCHANGED <<latest, sent, assembler>> PROVE SentInv'
  BY <1>1, <1>2 DEF SentInv, Buffered
<1>3. ASSUME NEW c \in Clients, NEW d, NEW k, Push(c, d, k) PROVE SentInv'
  <2>1. UNCHANGED <<topic, latest, assembler>>
    BY <1>3 DEF Push, busVars, coreVars
  <2>2. \A t \in Transfers : sent[t].doc \in Documents => sent'[t] = sent[t]
    BY <1>3, PushLeavesSent
  <2>3. \A m : AsSent(m) => AsSent(m)'
    BY <2>2 DEF AsSent
  <2>4. \A t \in Transfers : Buffered(t) => Buffered(t)'
    BY <2>1, <2>2 DEF Buffered
  <2>5. Written' = Written
    BY <2>1 DEF Written
  <2> QED BY <2>1, <2>3, <2>4, <2>5 DEF SentInv
<1>4. ASSUME NEW c \in Clients, Send(c) PROVE SentInv'
  <2>1. /\ Written' \subseteq Written \cup {Call(c)} /\ latest' = Call(c)
        /\ UNCHANGED <<sent, assembler>>
    BY <1>4, CallsAppended DEF Send, coreVars
  <2>2. AsSent(Call(c))
    BY <1>4, CallAsSent DEF Send
  <2> HIDE DEF Call
  <2> QED BY <2>1, <2>2 DEF SentInv, AsSent, Buffered
<1>5. ASSUME NEW m \in Written, Handle(m) PROVE SentInv'
  <2>1. Written' \subseteq Written /\ UNCHANGED <<latest, sent>> /\ Take(m)
    BY <1>5, HandleSame, TakeTyped
  <2>2. CASE UNCHANGED assembler
    BY <1>2, <2>1, <2>2
  <2>3. ASSUME m.transfer \in Transfers,
               Settle(m, NoPending) \/ Settle(m, assembler[m.transfer])
        PROVE  SentInv'
    <3>1. \A t \in Transfers : assembler'[t].total # 0 => assembler'[t] = assembler[t]
      BY <2>3 DEF Settle, NoPending, TypeInv
    <3>2. \A t \in Transfers : assembler'[t].total # 0 => Buffered(t)'
      BY <2>1, <3>1 DEF SentInv, Buffered
    <3> QED BY <1>1, <2>1, <3>2
  <2>4. CASE Buffer(m)
    <3>1. Authorised(m.key) /\ Settle(m, Grown(m))
      BY <2>4 DEF Buffer
    <3>2. Buffered(m.transfer)'
      BY <2>1, <3>1, EntryAsSent DEF Settle, TypeInv, Buffered
    <3>3. \A t \in Transfers \ {m.transfer} : assembler'[t] = assembler[t]
      BY <3>1 DEF Settle, TypeInv
    <3>4. \A t \in Transfers : assembler'[t].total # 0 => Buffered(t)'
      BY <2>1, <3>2, <3>3 DEF SentInv, Buffered
    <3> QED BY <1>1, <2>1, <3>4
  <2> QED
    BY <1>5, <2>2, <2>3, <2>4
    DEF Handle, RefuseKey, RefuseChunk, RefuseDocument, SetWorkspace, SentInv, AsSent
<1>6. CASE Lose \/ Discard
  BY <1>2, <1>6, WrittenShrinks DEF Lose, Discard, coreVars, pushVars
<1>7. CASE Crash
  BY <1>1, <1>7, WrittenShrinks DEF Crash, pushVars, NoPending
<1>8. CASE Attach
  <2>1. Written' \subseteq {latest} \ {NoCall} /\ UNCHANGED <<latest, sent, assembler>>
    BY <1>8 DEF Attach, pushVars, Written
  <2> QED BY <2>1 DEF SentInv, AsSent, Buffered
<1>9. ASSUME UNCHANGED <<topic, latest, sent, assembler>> PROVE SentInv'
  BY <1>2, <1>9, WrittenShrinks
<1> QED
  BY <1>3, <1>4, <1>5, <1>6, <1>7, <1>8, <1>9
  DEF Next, GiveUp, Receive, Serve, Release, Grant, vars, busVars, coreVars, pushVars

LEMMA SentInvInit == Init => SentInv
  BY DEF Init, SentInv, Written, NoPending

LEMMA SentInvSuffices == SentInv => BufferedWasSent
<1> SUFFICES ASSUME SentInv, NEW t \in Transfers, assembler[t].total # 0
             PROVE  /\ assembler[t].total = Len(sent[t].doc)
                    /\ assembler[t].key = sent[t].key /\ sent[t].key = OperatorKey
                    /\ \A i \in DOMAIN assembler[t].chunks :
                         /\ i + 1 \in DOMAIN sent[t].doc
                         /\ assembler[t].chunks[i] = sent[t].doc[i + 1]
  BY DEF BufferedWasSent
<1>1. Buffered(t)
  BY DEF SentInv
<1>2. sent[t].doc \in Seq(Slices)
  BY <1>1, DocumentsAreWritten DEF Buffered
<1>3. \A i \in DOMAIN assembler[t].chunks : i + 1 \in DOMAIN sent[t].doc
  BY <1>1, <1>2 DEF Buffered
<1> QED BY <1>1, <1>3 DEF Buffered

(* No transfer ever holds a chunk of another push, or one nobody was        *)
(* authorised to send (next_transfer_id, accept, the key check).           *)
THEOREM BufferedWasSentHolds == Spec => []BufferedWasSent
<1>1. Init => TypeInv /\ SentInv
  BY TypeInvInit, SentInvInit
<1>2. TypeInv /\ SentInv /\ [Next]_vars => TypeInv' /\ SentInv'
  BY TypeInvStep, SentInvStep
<1> QED BY <1>1, <1>2, SentInvSuffices, PTL DEF Spec

-----------------------------------------------------------------------------
(* Once per push.  While a core serves there is at most one call of a push  *)
(* on the topic, the one its client waits for if it still does; the chunks *)
(* before it are all that the assembler can hold of the push, and the map  *)
(* has not been replaced by it yet.                                        *)
OneEach == \A i, j \in 1..Len(topic) : topic[i].transfer = topic[j].transfer => i = j

Upto(t, n) == assembler[t].total # 0 => \A i \in DOMAIN assembler[t].chunks : i < n

InFlight(m) ==
    /\ m.transfer \notin applied
    /\ Upto(m.transfer, m.index)
    /\ \A c \in Clients : TransferOf(c) = m.transfer /\ client[c].stage # "idle" =>
         client[c].stage = "waiting" /\ client[c].index = m.index

UnderWay(c) ==
    /\ Upto(TransferOf(c), client[c].index + 1)
    /\ client[c].stage = "sending" =>
         TransferOf(c) \notin applied /\ Upto(TransferOf(c), client[c].index)
    /\ TransferOf(c) \in applied => client[c].index + 1 = Len(DocOf(c))
    /\ client[c].reply = "accepted" => TransferOf(c) \in applied

OnceInv ==
    /\ core = "serving" => OneEach /\ \A m \in Written : InFlight(m)
    /\ core # "serving" => \A t \in Transfers : assembler[t].total = 0
    /\ \A c \in Clients : client[c].stage # "idle" => UnderWay(c)
    /\ \A t \in applied : t \in Transfers /\ sent[t].doc \in Documents
    /\ told \subseteq applied

LEMMA OthersTaken ==
    ASSUME TypeInv, OneEach, topic # << >>, topic' = Tail(topic)
    PROVE  OneEach' /\ \A m \in Written' : m \in Written /\ m.transfer # Head(topic).transfer
<1>1. /\ topic \in Seq(Messages) /\ Len(topic) \in Nat \ {0} /\ Len(topic') = Len(topic) - 1
      /\ \A i \in 1..Len(topic') : topic'[i] = topic[i + 1]
      /\ Head(topic) = topic[1]
  BY DEF TypeInv
<1>2. OneEach'
  BY <1>1 DEF OneEach
<1>3. \A i \in 1..Len(topic') : topic'[i] \in Written /\ topic'[i].transfer # topic[1].transfer
  BY <1>1 DEF OneEach, Written
<1>4. topic' \in Seq(Messages)
  BY <1>1
<1> QED BY <1>1, <1>2, <1>3, <1>4 DEF Written

(* The last chunk completes a document: all of it, and at the last index.   *)
LEMMA CompleteIsWhole ==
    ASSUME TypeInv, SentInv, NEW m \in Written, Authorised(m.key), Complete(m)
    PROVE  Assembled(m) = sent[m.transfer].doc
<1> DEFINE d == sent[m.transfer].doc
<1>1. /\ d \in Documents /\ m.total = Len(d) /\ m.total \in Nat \ {0}
      /\ \A i \in DOMAIN Grown(m).chunks : i \in 0..m.total - 1 /\ Grown(m).chunks[i] = d[i + 1]
  <2>1. d \in Documents /\ m.total = Len(d) /\ m.total \in Nat \ {0}
    BY EntryAsSent
  <2>2. \A i \in DOMAIN Grown(m).chunks : i \in 0..m.total - 1
    BY EntryAsSent
  <2>3. \A i \in DOMAIN Grown(m).chunks : Grown(m).chunks[i] = d[i + 1]
    BY EntryAsSent
  <2> QED BY <2>1, <2>2, <2>3
<1>2. IsFiniteSet(0..m.total - 1) /\ Cardinality(0..m.total - 1) = m.total
  <2>1. m.total - 1 \in Int /\ m.total - 1 >= 0 /\ m.total - 1 - 0 + 1 = m.total
    BY <1>1
  <2>2. ~ 0 > m.total - 1
    BY <2>1
  <2> QED BY <2>1, <2>2, FS_Interval
<1>3. DOMAIN Grown(m).chunks = 0..m.total - 1
  BY <1>1, <1>2, FS_Subset DEF Complete
<1>4. \A i \in 1..m.total : Grown(m).chunks[i - 1] = d[i]
  BY <1>1, <1>3
<1>5. d \in Seq(Slices)
  BY <1>1, DocumentsAreWritten
<1> HIDE DEF d
<1>6. Assembled(m) = [i \in 1..Len(d) |-> d[i]]
  BY <1>1, <1>4 DEF Assembled
<1>7. d = [i \in 1..Len(d) |-> d[i]]
  BY <1>5
<1> QED BY <1>6, <1>7 DEF d

LEMMA CompleteAtLast ==
    ASSUME TypeInv, SentInv, NEW m \in Written, Authorised(m.key), Complete(m),
           Upto(m.transfer, m.index)
    PROVE  m.index + 1 = Len(sent[m.transfer].doc)
<1>1. /\ m.total = Len(sent[m.transfer].doc) /\ m.total \in Nat \ {0}
      /\ m.index \in 0..m.total - 1
      /\ DOMAIN Grown(m).chunks = DOMAIN Entry(m).chunks \cup {m.index}
      /\ \A i \in DOMAIN Grown(m).chunks : i \in 0..m.total - 1
  BY EntryAsSent
<1>2. \A i \in DOMAIN Entry(m).chunks : i < m.index
  BY DEF Upto, Entry
<1>3. DOMAIN Grown(m).chunks \subseteq 0..m.index
  BY <1>1, <1>2
<1>4. IsFiniteSet(0..m.index) /\ Cardinality(0..m.index) = m.index + 1
  BY <1>1, FS_Interval
<1>5. Cardinality(DOMAIN Grown(m).chunks) <= m.index + 1
  BY <1>3, <1>4, FS_Subset
<1> QED BY <1>1, <1>5 DEF Complete

(* Clients.                                                                *)
LEMMA GiveUpOnce ==
    ASSUME TypeInv, OnceInv, NEW c \in Clients, GiveUp(c) PROVE OnceInv'
<1>1. UNCHANGED <<sent, told, topic, core, assembler, applied>>
  BY DEF GiveUp, busVars, coreVars
<1>2. \A b \in Clients : client'[b].stage # "idle" => client'[b] = client[b]
  BY DEF GiveUp, TypeInv
<1>3. \A b \in Clients : TransferOf(b)' = TransferOf(b)
  BY DEF GiveUp, TypeInv, ClientStates, TransferOf
<1>4. \A b \in Clients : client'[b].stage # "idle" => UnderWay(b)'
  BY <1>1, <1>2, <1>3 DEF OnceInv, UnderWay, Upto, DocOf
<1>5. \A m \in Written : InFlight(m) => InFlight(m)'
  BY <1>1, <1>2, <1>3 DEF InFlight, Upto
<1> QED BY <1>1, <1>4, <1>5 DEF OnceInv, OneEach, Written

LEMMA ReceiveOnce ==
    ASSUME TypeInv, SentInv, OnceInv, NEW c \in Clients, Receive(c) PROVE OnceInv'
<1>1. /\ UNCHANGED <<sent, topic, core, assembler, applied>>
      /\ client[c].stage = "answered"
  BY DEF Receive, busVars, coreVars
<1>2. \A b \in Clients \ {c} : client'[b] = client[b]
  BY DEF Receive, TypeInv
<1>3. \A b \in Clients : TransferOf(b)' = TransferOf(b) /\ DocOf(b)' = DocOf(b)
  BY <1>1 DEF Receive, TypeInv, ClientStates, TransferOf, DocOf
<1>4. UnderWay(c)
  BY <1>1 DEF OnceInv
<1>5. client[c].index \in Nat
  BY DEF TypeInv, ClientStates
<1>6. /\ client'[c].reply = "none"
      /\ \/ client'[c].stage = "idle"
         \/ /\ client'[c].stage = "sending" /\ client'[c].index = client[c].index + 1
            /\ client[c].index + 1 # Len(DocOf(c))
  BY DEF Receive, TypeInv, ClientStates
<1>7. client'[c].stage # "idle" => UnderWay(c)'
  <2> SUFFICES ASSUME client'[c].stage # "idle" PROVE UnderWay(c)'
    OBVIOUS
  <2>1. TransferOf(c) \notin applied /\ Upto(TransferOf(c), client[c].index + 1)
    BY <1>4, <1>6 DEF UnderWay
  <2>2. assembler[TransferOf(c)].total # 0 =>
          \A i \in DOMAIN assembler[TransferOf(c)].chunks : i < client'[c].index
    BY <1>6, <2>1 DEF Upto
  <2>3. TransferOf(c) \in Transfers
    BY <1>1 DEF TypeInv
  <2> QED
    <3>1. assembler[TransferOf(c)].total # 0 =>
            \A i \in DOMAIN assembler[TransferOf(c)].chunks : i \in Int
      BY <2>3 DEF SentInv, Buffered
    <3>2. Upto(TransferOf(c), client[c].index)'
      BY <1>1, <1>3, <2>2 DEF Upto
    <3>3. Upto(TransferOf(c), client[c].index + 1)'
      <4>1. client'[c].index \in Nat
        BY <1>5, <1>6
      <4>2. assembler[TransferOf(c)].total # 0 =>
              \A i \in DOMAIN assembler[TransferOf(c)].chunks : i < client'[c].index + 1
        BY <2>2, <3>1, <4>1
      <4> QED BY <1>1, <1>3, <4>2 DEF Upto
    <3> QED BY <1>1, <1>3, <1>6, <2>1, <3>2, <3>3 DEF UnderWay
<1>8. \A b \in Clients : client'[b].stage # "idle" => UnderWay(b)'
  BY <1>1, <1>2, <1>3, <1>7 DEF OnceInv, UnderWay, Upto
<1>9. \A m \in Written : core = "serving" => InFlight(m)'
  <2> SUFFICES ASSUME NEW m \in Written, core = "serving" PROVE InFlight(m)'
    OBVIOUS
  <2>1. InFlight(m) /\ TransferOf(c) # m.transfer
    BY <1>1 DEF OnceInv, InFlight
  <2> QED BY <1>1, <1>2, <1>3, <2>1 DEF InFlight, Upto
<1>10. told' \subseteq applied'
  BY <1>1, <1>4 DEF Receive, OnceInv, UnderWay
<1> QED BY <1>1, <1>8, <1>9, <1>10 DEF OnceInv, OneEach, Written

LEMMA SendOnce ==
    ASSUME TypeInv, OnceInv, NEW c \in Clients, Send(c) PROVE OnceInv'
<1>1. /\ UNCHANGED <<sent, told, core, assembler, applied>>
      /\ client[c].stage = "sending"
  BY DEF Send, coreVars
<1>2. /\ \A b \in Clients \ {c} : client'[b] = client[b]
      /\ client'[c].stage = "waiting" /\ client'[c].index = client[c].index
      /\ client'[c].reply = client[c].reply
      /\ \A b \in Clients : TransferOf(b)' = TransferOf(b) /\ DocOf(b)' = DocOf(b)
  BY <1>1 DEF Send, TypeInv, ClientStates, TransferOf, DocOf
<1>3. UnderWay(c)
  BY <1>1 DEF OnceInv
<1>4. \A b \in Clients : client'[b].stage # "idle" => UnderWay(b)'
  BY <1>1, <1>2, <1>3 DEF OnceInv, UnderWay, Upto
<1>5. CASE core # "serving"
  BY <1>1, <1>4, <1>5 DEF OnceInv
<1>6. CASE core = "serving"
  <2>1. /\ Call(c) \in Messages /\ topic' = Append(topic, Call(c))
        /\ Written' \subseteq Written \cup {Call(c)}
    BY <1>6, CallsAppended
  <2>2. \A m \in Written : InFlight(m) /\ m.transfer # TransferOf(c)
    BY <1>1, <1>6 DEF OnceInv, InFlight
  <2>3. \A m \in Written : InFlight(m)'
    BY <1>1, <1>2, <2>2 DEF InFlight, Upto
  <2>4. Call(c).transfer = TransferOf(c) /\ Call(c).index = client[c].index
    BY DEF Call
  <2>5. \A b \in Clients : TransferOf(b) = TransferOf(c) => b = c
    BY DEF TransferOf
  <2>6. PICK m : m = Call(c)
    OBVIOUS
  <2>7. InFlight(m)'
    BY <1>1, <1>2, <1>3, <2>4, <2>5, <2>6 DEF InFlight, UnderWay, Upto
  <2>8. OneEach'
    <3>1. /\ topic \in Seq(Messages) /\ m \in Messages /\ topic' = Append(topic, m)
      BY <2>1, <2>6 DEF TypeInv
    <3>2. /\ Len(topic') = Len(topic) + 1 /\ Len(topic) \in Nat
          /\ \A i \in 1..Len(topic) : topic'[i] = topic[i] /\ topic[i].transfer # m.transfer
          /\ topic'[Len(topic) + 1] = m
      BY <2>2, <2>4, <2>6, <3>1 DEF Written
    <3>3. OneEach
      BY <1>6 DEF OnceInv
    <3> QED BY <3>2, <3>3 DEF OneEach
  <2>9. \A x \in Written' : InFlight(x)'
    BY <2>1, <2>3, <2>6, <2>7
  <2> QED BY <1>1, <1>4, <1>6, <2>8, <2>9 DEF OnceInv
<1> QED BY <1>5, <1>6

LEMMA PushOnce ==
    ASSUME TypeInv, SentInv, OnceInv, NEW c \in Clients, NEW d, NEW k, Push(c, d, k)
    PROVE  OnceInv'
<1> DEFINE t == <<c, client[c].pushes + 1>>
<1>1. UNCHANGED <<told, topic, core, assembler, applied>>
  BY DEF Push, busVars, coreVars
<1>2. \A u \in Transfers : sent[u].doc \in Documents => sent'[u] = sent[u] /\ u # t
  <2>1. \A u \in Transfers : sent[u].doc \in Documents => sent'[u] = sent[u]
    BY PushLeavesSent
  <2>2. t \in Transfers => sent[t].doc \notin Documents
    <3>1. client[c].pushes \in Nat /\ client[c].pushes + 1 \in 1..PushBound[c]
      <4>1. client[c].pushes \in Nat /\ client[c].pushes < PushBound[c]
        BY DEF Push, TypeInv, ClientStates
      <4>2. PushBound[c] \in Nat
        BY PushAssumption
      <4> QED BY <4>1, <4>2
    <3>2. sent[t].doc = << >>
      BY <3>1 DEF TypeInv, NoPush
    <3> QED BY <3>2, PushAssumption
  <2> QED BY <2>1, <2>2
<1>3. /\ client'[c].stage = "sending" /\ client'[c].index = 0 /\ client'[c].reply = "none"
      /\ TransferOf(c)' = t /\ client[c].stage = "idle"
      /\ \A b \in Clients \ {c} : client'[b] = client[b] /\ TransferOf(b)' = TransferOf(b)
  BY DEF Push, TypeInv, TransferOf
<1>4. t \notin applied /\ (t \in Transfers => assembler[t].total = 0)
  BY <1>2 DEF OnceInv, SentInv, Buffered
<1>5. t \in Transfers
  <2>1. client'[c].pushes = client[c].pushes + 1 /\ client[c].pushes \in Nat
        /\ client[c].pushes < PushBound[c] /\ PushBound[c] \in Nat
    BY PushAssumption DEF Push, TypeInv, ClientStates
  <2> QED BY <2>1, TransferPairs
<1>6. \A b \in Clients \ {c} : client[b].stage # "idle" => DocOf(b)' = DocOf(b)
  BY <1>2, <1>3 DEF DocOf, TypeInv
<1> HIDE DEF t
<1>7. UnderWay(c)'
  BY <1>1, <1>3, <1>4, <1>5 DEF UnderWay, Upto
<1>8. \A b \in Clients : client'[b].stage # "idle" => UnderWay(b)'
  BY <1>1, <1>3, <1>6, <1>7 DEF OnceInv, UnderWay, Upto
<1>9. \A m \in Written : InFlight(m) => InFlight(m)'
  <2> SUFFICES ASSUME NEW m \in Written, InFlight(m) PROVE InFlight(m)'
    OBVIOUS
  <2>1. m.transfer # t
    BY <1>2 DEF SentInv, AsSent
  <2> QED BY <1>1, <1>3, <2>1 DEF InFlight, Upto
<1> QED BY <1>1, <1>2, <1>8, <1>9 DEF OnceInv, OneEach, Written

(* The core's turn: the call taken is answered, and its transfer alone      *)
(* changes in the assembler.                                               *)
LEMMA HandleParts ==
    ASSUME TypeInv, SentInv, OnceInv, NEW m \in Written, Handle(m)
    PROVE  /\ core = "serving" /\ core' = core /\ InFlight(m)
           /\ UNCHANGED <<sent, told>>
           /\ OneEach' /\ \A x \in Written' : x \in Written /\ x.transfer # m.transfer
           /\ \A t \in Transfers \ {m.transfer} : assembler'[t] = assembler[t]
           /\ \E e : /\ assembler'[m.transfer] = e
                     /\ e.total # 0 => \A i \in DOMAIN e.chunks : i < m.index + 1
           /\ \/ applied' = applied
              \/ SetWorkspace(m) /\ applied' = applied \cup {m.transfer}
<1>1. Take(m)
  BY HandleSame
<1>2. core = "serving" /\ core' = core /\ InFlight(m) /\ UNCHANGED <<sent, told>>
  BY <1>1 DEF Take, OnceInv
<1>3. OneEach' /\ \A x \in Written' : x \in Written /\ x.transfer # m.transfer
  BY <1>1, <1>2, OthersTaken DEF Take, OnceInv
<1>4. m.transfer \in Transfers /\ m.index \in Nat
  BY DEF SentInv, AsSent
<1>5. ASSUME NEW e, Settle(m, e)
      PROVE  /\ \A t \in Transfers \ {m.transfer} : assembler'[t] = assembler[t]
             /\ assembler'[m.transfer] = e
  BY <1>4, <1>5 DEF Settle, TypeInv
<1>6. ASSUME NEW e, e = NoPending \/ e = assembler[m.transfer], Settle(m, e)
      PROVE  e.total # 0 => \A i \in DOMAIN e.chunks : i < m.index + 1
  <2>1. CASE e = NoPending
    BY <2>1 DEF NoPending
  <2>2. CASE e = assembler[m.transfer]
    BY <1>2, <1>4, <2>2 DEF InFlight, Upto, SentInv, Buffered
  <2> QED BY <1>6, <2>1, <2>2
<1>7. CASE RefuseKey(m)
  BY <1>2, <1>3, <1>4, <1>7 DEF RefuseKey, InFlight, Upto, SentInv, Buffered
<1>8. CASE RefuseChunk(m)
  BY <1>2, <1>3, <1>5, <1>6, <1>8 DEF RefuseChunk
<1>9. CASE Buffer(m)
  <2>1. Settle(m, Grown(m)) /\ Authorised(m.key) /\ applied' = applied
    BY <1>9 DEF Buffer
  <2>2. DOMAIN Grown(m).chunks = DOMAIN Entry(m).chunks \cup {m.index}
    BY <2>1, EntryAsSent
  <2>3. \A i \in DOMAIN Entry(m).chunks : i < m.index /\ i \in Int
    BY <1>2, <1>4 DEF InFlight, Upto, Entry, SentInv, Buffered
  <2>4. \A i \in DOMAIN Grown(m).chunks : i < m.index + 1
    BY <1>4, <2>2, <2>3
  <2> QED BY <1>2, <1>3, <1>5, <2>1, <2>4
<1>10. CASE RefuseDocument(m)
  BY <1>2, <1>3, <1>5, <1>6, <1>10 DEF RefuseDocument
<1>11. CASE SetWorkspace(m)
  BY <1>2, <1>3, <1>5, <1>6, <1>11 DEF SetWorkspace
<1> QED BY <1>7, <1>8, <1>9, <1>10, <1>11 DEF Handle

(* Only the client that waits for this very call hears of it.               *)
LEMMA AnswerParts ==
    ASSUME TypeInv, NEW m, NEW r, Answer(m, r), UNCHANGED sent, InFlight(m)
    PROVE  \A c \in Clients :
             /\ TransferOf(c)' = TransferOf(c) /\ DocOf(c)' = DocOf(c)
             /\ client'[c].index = client[c].index
             /\ client'[c].stage = "idle" <=> client[c].stage = "idle"
             /\ TransferOf(c) # m.transfer => client'[c] = client[c]
             /\ (TransferOf(c) = m.transfer /\ client[c].stage # "idle") =>
                    /\ client'[c].stage = "answered" /\ client'[c].reply = r
                    /\ client[c].index = m.index
<1>1. \A c \in Clients : \/ client'[c] = client[c]
                         \/ client'[c] = [client[c] EXCEPT !.stage = "answered", !.reply = r]
  BY DEF Answer
<1>2. \A c \in Clients : /\ client'[c].index = client[c].index
                         /\ client'[c].pushes = client[c].pushes
  <2> TAKE c \in Clients
  <2>1. PICK x : x = client[c]
    OBVIOUS
  <2>2. x \in ClientStates
    BY <2>1 DEF TypeInv
  <2>3. client'[c] = x \/ client'[c] = [x EXCEPT !.stage = "answered", !.reply = r]
    BY <1>1, <2>1
  <2> QED BY <2>1, <2>2, <2>3 DEF ClientStates
<1>3. \A c \in Clients : TransferOf(c)' = TransferOf(c) /\ DocOf(c)' = DocOf(c)
  BY <1>2 DEF TransferOf, DocOf
<1>4. \A c \in Clients : TransferOf(c) # m.transfer => client'[c] = client[c]
  BY DEF Answer
<1>5. \A c \in Clients : client'[c].stage = "idle" <=> client[c].stage = "idle"
  BY DEF Answer, TypeInv, ClientStates
<1>6. \A c \in Clients : (TransferOf(c) = m.transfer /\ client[c].stage # "idle") =>
        /\ client'[c].stage = "answered" /\ client'[c].reply = r /\ client[c].index = m.index
  BY DEF Answer, InFlight, TypeInv, ClientStates
<1> QED BY <1>2, <1>3, <1>4, <1>5, <1>6

LEMMA HandleOnce ==
    ASSUME TypeInv, SentInv, OnceInv, NEW m \in Written, Handle(m) PROVE OnceInv'
<1>1. PICK r : Answer(m, r) /\ (r = "accepted" => SetWorkspace(m))
  BY DEF Handle, RefuseKey, RefuseChunk, Buffer, RefuseDocument, SetWorkspace
<1>2. /\ core = "serving" /\ core' = core /\ InFlight(m) /\ UNCHANGED <<sent, told>>
      /\ OneEach' /\ \A x \in Written' : x \in Written /\ x.transfer # m.transfer
      /\ \A t \in Transfers \ {m.transfer} : assembler'[t] = assembler[t]
      /\ \/ applied' = applied
         \/ SetWorkspace(m) /\ applied' = applied \cup {m.transfer}
  BY HandleParts
<1>3. assembler'[m.transfer].total # 0 =>
        \A i \in DOMAIN assembler'[m.transfer].chunks : i < m.index + 1
  BY HandleParts
<1>4. m.transfer \in Transfers /\ sent[m.transfer].doc \in Documents
  BY DEF SentInv, AsSent
<1>5. \A c \in Clients :
        /\ TransferOf(c)' = TransferOf(c) /\ DocOf(c)' = DocOf(c)
        /\ client'[c].index = client[c].index
        /\ client'[c].stage = "idle" <=> client[c].stage = "idle"
        /\ TransferOf(c) # m.transfer => client'[c] = client[c]
        /\ (TransferOf(c) = m.transfer /\ client[c].stage # "idle") =>
               /\ client'[c].stage = "answered" /\ client'[c].reply = r
               /\ client[c].index = m.index
  BY <1>1, <1>2, AnswerParts
<1>6. \A x \in Written' : InFlight(x)'
  <2> SUFFICES ASSUME NEW x \in Written' PROVE InFlight(x)'
    OBVIOUS
  <2>1. InFlight(x) /\ x.transfer # m.transfer /\ x.transfer \in Transfers
    BY <1>2 DEF OnceInv, SentInv, AsSent
  <2> QED BY <1>2, <1>5, <2>1 DEF InFlight, Upto
<1>7. ASSUME NEW c \in Clients, client[c].stage # "idle", TransferOf(c) # m.transfer
      PROVE  UnderWay(c)'
  <2>1. UnderWay(c) /\ TransferOf(c) \in Transfers
    BY <1>7 DEF OnceInv, TypeInv
  <2> QED BY <1>2, <1>5, <1>7, <2>1 DEF UnderWay, Upto
<1>8. ASSUME NEW c \in Clients, client[c].stage # "idle", TransferOf(c) = m.transfer
      PROVE  UnderWay(c)'
  <2>1. /\ TransferOf(c)' = m.transfer /\ DocOf(c)' = sent[m.transfer].doc
        /\ client'[c].stage = "answered" /\ client'[c].reply = r
        /\ client'[c].index = m.index
    BY <1>5, <1>8 DEF DocOf
  <2>2. Upto(TransferOf(c), client[c].index + 1)'
    BY <1>3, <2>1 DEF Upto
  <2>3. CASE SetWorkspace(m)
    <3>1. Authorised(m.key) /\ Complete(m) /\ applied' = applied \cup {m.transfer}
      BY <2>3 DEF SetWorkspace
    <3>2. m.index + 1 = Len(sent[m.transfer].doc)
      BY <1>2, <3>1, CompleteAtLast DEF InFlight
    <3> QED BY <2>1, <2>2, <3>1, <3>2 DEF UnderWay
  <2>4. CASE ~ SetWorkspace(m)
    <3>1. r # "accepted" /\ m.transfer \notin applied'
      BY <1>1, <1>2, <2>4 DEF InFlight
    <3> QED BY <2>1, <2>2, <3>1 DEF UnderWay
  <2> QED BY <2>3, <2>4
<1>9. \A c \in Clients : client'[c].stage # "idle" => UnderWay(c)'
  BY <1>5, <1>7, <1>8
<1>10. told' \subseteq applied' /\ \A t \in applied' : t \in Transfers /\ sent'[t].doc \in Documents
  BY <1>2, <1>4 DEF OnceInv
<1> QED BY <1>2, <1>6, <1>9, <1>10 DEF OnceInv

LEMMA OnceInvStep == TypeInv /\ SentInv /\ OnceInv /\ [Next]_vars => OnceInv'
<1> SUFFICES ASSUME TypeInv, SentInv, OnceInv, [Next]_vars PROVE OnceInv'
  OBVIOUS
<1>1. ASSUME UNCHANGED <<client, sent, told, assembler, applied>>,
             core = "serving" /\ core' = core => OneEach' /\ Written' \subseteq Written,
             core' # core => core' # "serving" \/ topic' = << >>,
             core' # "serving" => core # "serving"
      PROVE  OnceInv'
  <2>1. \A c \in Clients : UnderWay(c) => UnderWay(c)'
    BY <1>1 DEF UnderWay, Upto, TransferOf, DocOf
  <2>2. \A m : InFlight(m) => InFlight(m)'
    BY <1>1 DEF InFlight, Upto, TransferOf
  <2>3. topic' = << >> => OneEach' /\ Written' = {}
    BY DEF OneEach, Written
  <2>4. \A c \in Clients : client'[c].stage # "idle" => UnderWay(c)'
    BY <1>1, <2>1 DEF OnceInv
  <2>5. core' = "serving" => OneEach' /\ \A m \in Written' : InFlight(m)'
    BY <1>1, <2>2, <2>3 DEF OnceInv
  <2> QED BY <1>1, <2>4, <2>5 DEF OnceInv
<1>2. ASSUME UNCHANGED topic PROVE OneEach = OneEach' /\ Written = Written'
  BY <1>2 DEF OneEach, Written
<1>3. ASSUME NEW c \in Clients, NEW p \in Pushes, Push(c, p[1], p[2]) PROVE OnceInv'
  BY <1>3, PushOnce
<1>4. ASSUME NEW c \in Clients, Send(c) \/ GiveUp(c) \/ Receive(c) PROVE OnceInv'
  BY <1>4, SendOnce, GiveUpOnce, ReceiveOnce
<1>5. ASSUME NEW m \in Written, Handle(m) PROVE OnceInv'
  BY <1>5, HandleOnce
<1>6. CASE Lose
  <2>1. core = "serving" /\ OneEach
    BY <1>6 DEF Lose, OnceInv
  <2>2. OneEach' /\ Written' \subseteq Written
    BY <1>6, <2>1, OthersTaken DEF Lose
  <2> QED BY <1>1, <1>6, <2>1, <2>2 DEF Lose, coreVars, pushVars
<1>7. CASE Discard
  BY <1>1, <1>7 DEF Discard, coreVars, pushVars
<1>8. CASE Crash
  <2>1. /\ core' = "down" /\ UNCHANGED <<client, sent, told, applied>>
        /\ \A t \in Transfers : assembler'[t].total = 0
    BY <1>8 DEF Crash, pushVars, NoPending
  <2>2. \A c \in Clients : client[c].stage # "idle" => TransferOf(c) \in Transfers
    BY DEF TypeInv
  <2>3. \A c \in Clients : client'[c].stage # "idle" => UnderWay(c)'
    BY <2>1, <2>2 DEF OnceInv, UnderWay, Upto, TransferOf, DocOf
  <2> QED BY <2>1, <2>3 DEF OnceInv
<1>9. CASE Attach
  BY <1>1, <1>9 DEF Attach, pushVars
<1>10. CASE Serve
  BY <1>1, <1>10 DEF Serve, busVars, pushVars
<1>11. ASSUME NEW r \in Robots, Release(r) \/ \E p \in Places : Grant(r, p) PROVE OnceInv'
  BY <1>1, <1>2, <1>11 DEF Release, Grant, OnceInv, busVars, pushVars
<1>12. CASE UNCHANGED vars
  BY <1>1, <1>2, <1>12 DEF OnceInv, vars, busVars, coreVars, pushVars
<1> QED BY <1>3, <1>4, <1>5, <1>6, <1>7, <1>8, <1>9, <1>10, <1>11, <1>12 DEF Next

LEMMA OnceInvInit == Init => OnceInv
  BY DEF Init, OnceInv, OneEach, Written, NoPending

(* Whoever is told that its workspace was accepted is told so of the push   *)
(* it made (Client::set_workspace).                                        *)
THEOREM ToldIsAppliedHolds == Spec => []ToldIsApplied
<1>1. Init => TypeInv /\ SentInv /\ OnceInv
  BY TypeInvInit, SentInvInit, OnceInvInit
<1>2. TypeInv /\ SentInv /\ OnceInv /\ [Next]_vars => TypeInv' /\ SentInv' /\ OnceInv'
  BY TypeInvStep, SentInvStep, OnceInvStep
<1>3. OnceInv => ToldIsApplied
  BY DEF OnceInv, ToldIsApplied
<1> QED BY <1>1, <1>2, <1>3, PTL DEF Spec

-----------------------------------------------------------------------------
(* The refinement.                                                         *)
OpenPushes == {<<t, sent[t].doc>> : t \in {u \in Transfers \ applied :
                                            sent[u].doc # << >> /\ sent[u].key = OperatorKey}}

LEMMA PushRefined ==
    ASSUME TypeInv, SentInv, OnceInv, NEW c \in Clients, NEW d \in Documents, NEW k,
           Push(c, d, k)
    PROVE  Abstract!Next
<1> DEFINE t == <<c, client[c].pushes + 1>>
<1>1. UNCHANGED <<served, applied>>
  BY DEF Push, coreVars
<1>2. t \in Transfers
  <2>1. client[c].pushes \in Nat /\ client[c].pushes < PushBound[c] /\ PushBound[c] \in Nat
    BY PushAssumption DEF Push, TypeInv, ClientStates
  <2>2. client[c].pushes + 1 \in 1..PushBound[c]
    BY <2>1
  <2> QED BY <2>2, TransferPairs
<1>3. \A u \in Transfers \ {t} : sent'[u] = sent[u]
  BY DEF Push, TypeInv
<1>4. sent'[t].doc = d
  BY <1>2 DEF Push, TypeInv
<1> HIDE DEF t
<1>5. OpenPushes' \subseteq OpenPushes \cup {<<t, d>>}
  BY <1>1, <1>3, <1>4 DEF OpenPushes
<1>6. Abstract!Begin(t, d)
  BY <1>1, <1>5 DEF Abstract!Begin, OpenPushes
<1> QED BY <1>2, <1>6 DEF Abstract!Next

LEMMA SetWorkspaceRefined ==
    ASSUME TypeInv, SentInv, OnceInv, NEW m \in Written, SetWorkspace(m)
    PROVE  Abstract!Next
<1> DEFINE p == <<m.transfer, sent[m.transfer].doc>>
<1>1. /\ Take(m) /\ Authorised(m.key) /\ Complete(m) /\ Assembled(m) \notin Refused
      /\ served' = Assembled(m) /\ applied' = applied \cup {m.transfer}
      /\ UNCHANGED sent
  BY DEF SetWorkspace, BindIndex, Take
<1>2. Assembled(m) = sent[m.transfer].doc
  BY <1>1, CompleteIsWhole
<1>3. /\ m.transfer \in Transfers /\ sent[m.transfer].doc \in Documents
      /\ sent[m.transfer].key = OperatorKey
  BY <1>1, EntryAsSent
<1>4. m.transfer \notin applied
  BY <1>1 DEF Take, OnceInv, InFlight
<1>5. << >> \notin Documents
  BY PushAssumption
<1>6. p \in OpenPushes
  BY <1>3, <1>4, <1>5 DEF OpenPushes
<1>7. OpenPushes' = OpenPushes \ {p}
  BY <1>1 DEF OpenPushes
<1>8. /\ p[2] \notin Refused /\ served' = p[2]
      /\ OpenPushes' = OpenPushes \ {p}
  BY <1>1, <1>2, <1>7
<1>9. \E q \in OpenPushes : /\ q[2] \notin Refused /\ served' = q[2]
                            /\ OpenPushes' = OpenPushes \ {q}
  BY <1>6, <1>8
<1> QED BY <1>9 DEF Abstract!Next, Abstract!Apply, OpenPushes

LEMMA StepRefined ==
    TypeInv /\ SentInv /\ OnceInv /\ [Next]_vars => [Abstract!Next]_(Abstract!avars)
<1> SUFFICES ASSUME TypeInv, SentInv, OnceInv, [Next]_vars
             PROVE  [Abstract!Next]_(Abstract!avars)
  OBVIOUS
<1>1. ASSUME UNCHANGED <<served, sent, applied>> PROVE UNCHANGED Abstract!avars
  BY <1>1 DEF Abstract!avars
<1>2. ASSUME NEW c \in Clients, NEW q \in Pushes, Push(c, q[1], q[2])
      PROVE  [Abstract!Next]_(Abstract!avars)
  BY <1>2, PushRefined, PushAssumption
<1>3. ASSUME NEW m \in Written, Handle(m) PROVE [Abstract!Next]_(Abstract!avars)
  <2>1. CASE SetWorkspace(m)
    BY <2>1, SetWorkspaceRefined
  <2>2. CASE ~ SetWorkspace(m)
    BY <1>1, <1>3, <2>2
    DEF Handle, RefuseKey, RefuseChunk, Buffer, RefuseDocument, Take
  <2> QED BY <2>1, <2>2
<1>4. CASE Attach
  <2>1. served' = BootDocument /\ UNCHANGED <<sent, applied>>
    BY <1>4 DEF Attach, BindIndex, pushVars
  <2>2. Abstract!Reboot
    BY <2>1 DEF Abstract!Reboot
  <2> QED BY <2>2 DEF Abstract!Next
<1>5. CASE UNCHANGED <<served, sent, applied>>
  BY <1>1, <1>5
<1> QED
  BY <1>2, <1>3, <1>4, <1>5
  DEF Next, Send, GiveUp, Receive, Lose, Crash, Discard, Serve, Release, Grant,
      vars, busVars, coreVars, pushVars

(* The map served is replaced only by the whole of a document pushed with   *)
(* the operator's key, once per push, or by what the core boots with:      *)
(* whatever is lost, given up, replayed or interleaved (Client::set_       *)
(* workspace, WorkspaceAssembler, set_workspace).                          *)
THEOREM ReplacesWholeMapsHolds == Spec => ReplacesWholeMaps
<1>1. Init => TypeInv /\ SentInv /\ OnceInv
  BY TypeInvInit, SentInvInit, OnceInvInit
<1>2. TypeInv /\ SentInv /\ OnceInv /\ [Next]_vars => TypeInv' /\ SentInv' /\ OnceInv'
  BY TypeInvStep, SentInvStep, OnceInvStep
<1>3. Init => Abstract!Init
  BY DEF Init, NoPush, Abstract!Init
<1>4. TypeInv /\ SentInv /\ OnceInv /\ [Next]_vars => [Abstract!Next]_(Abstract!avars)
  BY StepRefined
<1> QED BY <1>1, <1>2, <1>3, <1>4, PTL DEF Spec, ReplacesWholeMaps, Abstract!Spec

-----------------------------------------------------------------------------
(* The ledger beside it: both indexes are the same document, and a core    *)
(* that is down holds no claim, so that a new map never meets a claim that *)
(* still counts as granted under it.                                       *)
Claim == [robot : Robots, place : Places, current : BOOLEAN]

MapInv ==
    /\ served = managed
    /\ claims \subseteq Claim
    /\ core = "down" => claims = {}
    /\ ConflictsPredateTheMap

LEMMA MapInvInit == Init => MapInv
  BY DEF Init, MapInv, ConflictsPredateTheMap

LEMMA SetWorkspaceKeepsMapInv ==
    ASSUME MapInv, NEW m \in Written, SetWorkspace(m) PROVE MapInv'
<1> USE DEF MapInv, ConflictsPredateTheMap
<1>1. served' = managed' /\ claims' = {[g EXCEPT !.current = FALSE] : g \in claims}
  BY DEF SetWorkspace, BindIndex
<1>2. \A g \in Claim : [g EXCEPT !.current = FALSE] \in Claim
                       /\ [g EXCEPT !.current = FALSE].current = FALSE
  BY DEF Claim
<1>3. \A g \in claims' : g \in Claim /\ ~ g.current
  BY <1>1, <1>2
<1>4. core' # "down"
  BY DEF SetWorkspace, Take
<1> QED BY <1>1, <1>3, <1>4

LEMMA GrantKeepsMapInv ==
    ASSUME MapInv, NEW r \in Robots, NEW p \in Places, Grant(r, p) PROVE MapInv'
<1> USE DEF MapInv, ConflictsPredateTheMap
<1> DEFINE g == [robot |-> r, place |-> p, current |-> TRUE]
<1>1. /\ UNCHANGED <<served, managed, core>> /\ claims' = claims \cup {g}
      /\ core = "serving"
      /\ \A h \in claims : <<served, h.place, p>> \notin Overlap
  BY DEF Grant
<1>2. ASSUME NEW h \in claims PROVE <<served, p, h.place>> \notin Overlap
  <2> SUFFICES ASSUME <<served, p, h.place>> \in Overlap PROVE FALSE
    OBVIOUS
  <2> DEFINE o == <<served, p, h.place>>
  <2>1. <<o[1], o[3], o[2]>> \in Overlap
    BY OverlapAssumption
  <2>2. <<o[1], o[3], o[2]>> = <<served, h.place, p>>
    OBVIOUS
  <2> HIDE DEF o
  <2> QED BY <1>1, <2>1, <2>2
<1>3. g \in Claim /\ g.robot = r /\ g.place = p
  BY DEF Claim
<1> HIDE DEF g
<1>4. claims' \subseteq Claim
  BY <1>1, <1>3
<1>5. ConflictsPredateTheMap'
  BY <1>1, <1>2, <1>3
<1> QED BY <1>1, <1>4, <1>5

LEMMA MapInvStep == MapInv /\ [Next]_vars => MapInv'
<1> SUFFICES ASSUME MapInv, [Next]_vars PROVE MapInv'
  OBVIOUS
<1> USE DEF MapInv, ConflictsPredateTheMap
<1>1. ASSUME UNCHANGED <<served, managed>>, claims' \subseteq claims,
             core' = "down" => core = "down"
      PROVE  MapInv'
  BY <1>1
<1>2. ASSUME served' = managed', claims' = {} PROVE MapInv'
  BY <1>2
<1>3. ASSUME NEW m \in Written, SetWorkspace(m) PROVE MapInv'
  BY <1>3, SetWorkspaceKeepsMapInv
<1>4. ASSUME NEW m \in Written, Handle(m), ~ SetWorkspace(m) PROVE MapInv'
  BY <1>1, <1>4 DEF Handle, RefuseKey, RefuseChunk, Buffer, RefuseDocument, Take
<1>5. CASE Attach
  BY <1>2, <1>5 DEF Attach, BindIndex
<1>6. ASSUME NEW r \in Robots, NEW p \in Places, Grant(r, p) PROVE MapInv'
  BY <1>6, GrantKeepsMapInv
<1>7. ASSUME NEW r \in Robots, Release(r) PROVE MapInv'
  BY <1>1, <1>7 DEF Release
<1>8. CASE Crash
  BY <1>2, <1>8 DEF Crash
<1>9. CASE UNCHANGED <<served, managed, claims>> /\ (core' = "down" => core = "down")
  BY <1>1, <1>9
<1> QED
  BY <1>3, <1>4, <1>5, <1>6, <1>7, <1>8, <1>9
  DEF Next, Push, Send, GiveUp, Receive, Lose, Discard, Serve, vars, coreVars

(* Two claims that overlap under the map being served were both granted    *)
(* before it was served (set_workspace's bind_index under the write lock,  *)
(* grants judged by the same index).                                       *)
THEOREM ConflictsPredateTheMapHolds == Spec => []ConflictsPredateTheMap
<1>1. MapInv => ConflictsPredateTheMap
  BY DEF MapInv
<1> QED BY <1>1, MapInvInit, MapInvStep, PTL DEF Spec

-----------------------------------------------------------------------------
(* Bounds.  An entry of the assembler is short of a chunk and within the    *)
(* ceiling, also while chunks arrive twice; and no core starts but after    *)
(* one that crashed, so that the number of crashes bounds that of starts.   *)
Short(e) ==
    /\ e.total \in Nat /\ e.bytes \in Nat /\ e.bytes <= MaxBytes
    /\ DOMAIN e.chunks \subseteq 0..e.total - 1
    /\ e.total # 0 => Cardinality(DOMAIN e.chunks) < e.total

BoundInv ==
    /\ epoch \in 1..EpochBound
    /\ core = "down" => topic = << >> /\ epoch < EpochBound
    /\ \A t \in Transfers : Short(assembler[t])

LEMMA NoPendingShort == Short(NoPending)
<1>1. DOMAIN NoPending.chunks = {}
  BY DEF NoPending
<1> QED BY <1>1, PushAssumption DEF Short, NoPending

(* A chunk that is kept leaves the entry short of another.                 *)
LEMMA GrownShort ==
    ASSUME TypeInv, SentInv, BoundInv, NEW m \in Written,
           Authorised(m.key), Fits(m), ~ Complete(m)
    PROVE  Short(Grown(m))
<1> DEFINE d == DOMAIN Grown(m).chunks
<1>1. /\ m.transfer \in Transfers /\ m.total \in Nat \ {0} /\ Grown(m).total = m.total
      /\ \A i \in d : i \in 0..m.total - 1
  <2>1. \A i \in d : i \in 0..m.total - 1
    BY EntryAsSent
  <2>2. m.transfer \in Transfers /\ m.total \in Nat \ {0} /\ Grown(m).total = m.total
    BY EntryAsSent
  <2> QED BY <2>1, <2>2
<1>2. IsFiniteSet(0..m.total - 1) /\ Cardinality(0..m.total - 1) = m.total
  <2>1. m.total - 1 \in Int /\ m.total - 1 >= 0 /\ m.total - 1 - 0 + 1 = m.total
    BY <1>1
  <2>2. ~ 0 > m.total - 1
    BY <2>1
  <2> QED BY <2>1, <2>2, FS_Interval
<1>3. d \subseteq 0..m.total - 1
  BY <1>1
<1>4. Cardinality(d) \in Nat /\ Cardinality(d) <= m.total
  BY <1>2, <1>3, FS_Subset, FS_CardinalityType
<1>5. Cardinality(d) < m.total
  BY <1>1, <1>4 DEF Complete
<1>6. Size[m.body] \in Nat
  <2>1. m \in Messages
    BY DEF TypeInv, Written
  <2>2. m.body \in Slices
    BY <2>1 DEF Messages
  <2> QED BY <2>2, PushAssumption
<1>7. Entry(m).bytes \in Nat
  BY <1>1 DEF BoundInv, Short, Entry
<1>8. Grown(m).bytes = Entry(m).bytes + Size[m.body] /\ ~ Grown(m).bytes > MaxBytes
  BY DEF Grown, Fits, Dropped
<1>9. Grown(m).bytes \in Nat /\ Grown(m).bytes <= MaxBytes
  BY <1>6, <1>7, <1>8, PushAssumption
<1> QED BY <1>1, <1>3, <1>5, <1>9 DEF Short

LEMMA BoundInvInit == Init => BoundInv
  BY NoPendingShort, PushAssumption DEF Init, BoundInv

LEMMA BoundInvStep == TypeInv /\ SentInv /\ BoundInv /\ [Next]_vars => BoundInv'
<1> SUFFICES ASSUME TypeInv, SentInv, BoundInv, [Next]_vars PROVE BoundInv'
  OBVIOUS
<1>1. ASSUME UNCHANGED <<epoch, assembler>>,
             core' = "down" => core = "down" /\ UNCHANGED topic
      PROVE  BoundInv'
  BY <1>1 DEF BoundInv, Short
<1>2. ASSUME NEW m \in Written, Handle(m) PROVE BoundInv'
  <2>1. core' = "serving" /\ epoch' = epoch /\ m.transfer \in Transfers
    BY <1>2, HandleSame, TakeTyped DEF SentInv, AsSent
  <2>2. ASSUME NEW e, Short(e), Settle(m, e) PROVE BoundInv'
    <3>1. \A t \in Transfers : assembler'[t] = e \/ assembler'[t] = assembler[t]
      BY <2>2 DEF Settle, TypeInv
    <3> QED BY <2>1, <2>2, <3>1 DEF BoundInv, Short
  <2>3. CASE RefuseKey(m)
    BY <1>1, <2>1, <2>3 DEF RefuseKey
  <2>4. CASE Buffer(m)
    <3>1. Short(Grown(m)) /\ Settle(m, Grown(m))
      BY <2>4, GrownShort DEF Buffer
    <3> QED BY <2>2, <3>1
  <2>5. CASE RefuseChunk(m) \/ RefuseDocument(m) \/ SetWorkspace(m)
    <3>1. Short(assembler[m.transfer]) /\ Short(NoPending)
      BY <2>1, NoPendingShort DEF BoundInv
    <3>2. Settle(m, assembler[m.transfer]) \/ Settle(m, NoPending)
      BY <2>5 DEF RefuseChunk, RefuseDocument, SetWorkspace
    <3> QED BY <2>2, <3>1, <3>2
  <2> QED BY <1>2, <2>3, <2>4, <2>5 DEF Handle
<1>3. CASE Crash
  BY <1>3, NoPendingShort DEF Crash, BoundInv
<1>4. CASE Attach
  <2>1. /\ epoch' = epoch + 1 /\ core' = "attached" /\ assembler' = assembler
        /\ epoch \in 1..EpochBound /\ epoch < EpochBound
    BY <1>4 DEF Attach, BoundInv
  <2>2. epoch' \in 1..EpochBound
    BY <2>1, PushAssumption
  <2> QED BY <2>1, <2>2 DEF BoundInv, Short
<1>5. CASE Serve
  BY <1>1, <1>5 DEF Serve
<1>6. ASSUME NEW c \in Clients, Send(c) PROVE BoundInv'
  BY <1>1, <1>6 DEF Send, coreVars
<1>7. CASE UNCHANGED <<topic, coreVars>> \/ Lose \/ Discard
  BY <1>1, <1>7 DEF Lose, Discard, coreVars
<1>8. ASSUME NEW r \in Robots, Release(r) \/ \E p \in Places : Grant(r, p) PROVE BoundInv'
  BY <1>1, <1>8 DEF Release, Grant
<1> QED
  BY <1>2, <1>3, <1>4, <1>5, <1>6, <1>7, <1>8
  DEF Next, Push, GiveUp, Receive, vars, busVars

(* The core's state is what its code keeps: whatever is lost, repeated or   *)
(* interleaved, a pending transfer stays within the ceiling and short of a  *)
(* chunk, since the one that completes it takes it out (WorkspaceAssembler). *)
THEOREM PushTypeCorrect == Spec => []PushTypeOK
<1>1. TypeInv /\ SentInv /\ MapInv /\ BoundInv => PushTypeOK
  <2> SUFFICES ASSUME TypeInv, SentInv, MapInv, BoundInv PROVE PushTypeOK
    OBVIOUS
  <2>1. \A m \in Written : m.transfer \in Transfers /\ m.index < m.total
    <3> TAKE m \in Written
    <3>1. m \in Messages /\ AsSent(m)
      BY DEF TypeInv, Written, SentInv
    <3> QED BY <3>1 DEF AsSent, Messages
  <2> QED BY <2>1 DEF PushTypeOK, TypeInv, BoundInv, Short, MapInv, Claim
<1>2. Init => TypeInv /\ SentInv /\ MapInv /\ BoundInv
  BY TypeInvInit, SentInvInit, MapInvInit, BoundInvInit
<1>3. TypeInv /\ SentInv /\ MapInv /\ BoundInv /\ [Next]_vars
        => TypeInv' /\ SentInv' /\ MapInv' /\ BoundInv'
  BY TypeInvStep, SentInvStep, MapInvStep, BoundInvStep
<1> QED BY <1>1, <1>2, <1>3, PTL DEF Spec

=============================================================================
