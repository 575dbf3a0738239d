---------------------------- MODULE WorkspacePush ----------------------------
(***************************************************************************)
(* Replacing the served workspace over peerbus: Client::set_workspace cuts *)
(* a document into chunks and calls the core once per chunk; the core's    *)
(* polling loop takes the calls from the topic, gathers the chunks of each *)
(* transfer in its WorkspaceAssembler and applies a document when it holds *)
(* all of it (src/src/wire/peerbus.rs, src/src/wire/mod.rs).  Clients time *)
(* out and die, calls get lost, and the core crashes and starts again on   *)
(* topics that still hold its predecessor's last request.                  *)
(*                                                                         *)
(* peerbus itself is external: a topic is a queue in the order written, a  *)
(* consumer that attaches starts one message behind the latest write, and  *)
(* a call that fails to decode or whose sample was overwritten is lost.    *)
(***************************************************************************)
EXTENDS Integers, Sequences, FiniteSets, Functions

CONSTANTS
    Clients,        \* processes that push, one push at a time each
    PushBound,      \* how often each pushes (bounds its counter)
    EpochBound,     \* times the core starts
    Slices,         \* contents of a chunk
    Size,           \* the length of each
    MaxBytes,       \* MAX_WORKSPACE_BYTES
    Documents,      \* the documents pushed, sequences of slices
    Refused,        \* the documents set_workspace does not load
    BootDocument,   \* what the core starts with
    Keys, OperatorKey,
    Pushes,         \* <<d, k>>: document d is pushed with key k
    Robots, Places, \* a ledger of one place per robot,
    Present,        \* <<d, p>>: place p exists under document d
    Overlap         \* <<d, p, q>>: p and q overlap under d

ASSUME PushAssumption ==
    /\ PushBound \in [Clients -> Nat] /\ EpochBound \in Nat \ {0}
    /\ MaxBytes \in Nat
    /\ Size \in [Slices -> Nat]
    /\ Documents \subseteq Seq(Slices) \ {<< >>}
    /\ BootDocument \in Documents
    /\ OperatorKey \in Keys
    /\ Pushes \subseteq Documents \X Keys

ASSUME OverlapAssumption ==
    \A o \in Overlap : <<o[1], o[3], o[2]>> \in Overlap

VARIABLES
    core,       \* "down", "attached" (discarding) or "serving"
    epoch,      \* how often it has started
    topic,      \* calls written and not yet taken
    latest,     \* the last call written: what the segment still holds
    assembler,  \* pending transfers; total 0 is no entry
    served,     \* the document behind Coordinator::index
    managed,    \* and behind ClaimManager::index
    claims,     \* granted: robot, place, and whether under the present map
    client,     \* pushes made, and the call under way
    sent,       \* history: what was pushed under each number
    applied,    \* history: numbers whose push replaced the map
    told        \* history: numbers whose push was reported accepted

pushVars == <<client, sent, told>>
busVars  == <<topic, latest>>
coreVars == <<core, epoch, assembler, served, managed, claims, applied>>
vars == <<pushVars, busVars, coreVars>>

Transfers == UNION {{c} \X (1..PushBound[c]) : c \in Clients}

NoPush    == [doc |-> << >>, key |-> OperatorKey]
NoPending == [total |-> 0, chunks |-> << >>, bytes |-> 0, key |-> OperatorKey]
NoCall    == [transfer |-> << >>]

(* next_transfer_id: the process id and a counter of the process.  A        *)
(* process stands for its id: no two ever have the same (README, "Process  *)
(* ids").  One that dies is one that takes no further step.                *)
TransferOf(c) == <<c, client[c].pushes>>
DocOf(c) == sent[TransferOf(c)].doc

CallByCounterAlone(c) ==
    [ transfer |-> <<CHOOSE b \in Clients : TRUE, client[c].pushes>>, index |-> client[c].index,
      total |-> Len(DocOf(c)), body |-> DocOf(c)[client[c].index + 1],
      key |-> sent[TransferOf(c)].key, epoch |-> epoch ]

Call(c) ==
    [ transfer |-> TransferOf(c), index |-> client[c].index, total |-> Len(DocOf(c)),
      body |-> DocOf(c)[client[c].index + 1], key |-> sent[TransferOf(c)].key,
      epoch |-> epoch ]

Written == {topic[i] : i \in DOMAIN topic}

-----------------------------------------------------------------------------
Init ==
    /\ core = "serving" /\ epoch = 1
    /\ topic = << >> /\ latest = NoCall
    /\ assembler = [t \in Transfers |-> NoPending]
    /\ served = BootDocument /\ managed = BootDocument
    /\ claims = {}
    /\ client = [c \in Clients |->
                    [pushes |-> 0, stage |-> "idle", index |-> 0, reply |-> "none"]]
    /\ sent = [t \in Transfers |-> NoPush]
    /\ applied = {} /\ told = {}

(* set_workspace of a client: an empty document is refused there and then.  *)
Push(c, d, k) ==
    /\ client[c].stage = "idle" /\ client[c].pushes < PushBound[c]
    /\ client' = [client EXCEPT
            ![c] = [stage |-> "sending", index |-> 0, reply |-> "none",
                    pushes |-> client[c].pushes + 1]]
    /\ sent' = [sent EXCEPT ![<<c, client[c].pushes + 1>>] = [doc |-> d, key |-> k]]
    /\ UNCHANGED <<told, busVars, coreVars>>

(* call_message: write the request and wait.  Nobody takes what is written  *)
(* while the core is down; the segment keeps the last of it.               *)
Send(c) ==
    /\ client[c].stage = "sending"
    /\ topic' = IF core = "down" THEN topic ELSE Append(topic, Call(c))
    /\ latest' = Call(c)
    /\ client' = [client EXCEPT ![c].stage = "waiting"]
    /\ UNCHANGED <<sent, told, coreVars>>

(* The timeout of a call may beat an answer already on its way.             *)
GiveUp(c) ==
    /\ client[c].stage \in {"waiting", "answered"}
    /\ client' = [client EXCEPT ![c].stage = "idle", ![c].reply = "none"]
    /\ UNCHANGED <<sent, told, busVars, coreVars>>

ReceiveWithoutAsking(c) ==
    LET final  == client[c].index + 1 = Len(DocOf(c))
        failed == client[c].reply = "error"
    IN
    /\ client[c].stage = "answered"
    /\ told' = IF final /\ ~ failed THEN told \cup {TransferOf(c)} ELSE told
    /\ client' = [client EXCEPT ![c].reply = "none",
                                ![c].stage = IF failed \/ final THEN "idle" ELSE "sending",
                                ![c].index = IF failed \/ final THEN @ ELSE @ + 1]
    /\ UNCHANGED <<sent, busVars, coreVars>>

(* The answer to one call: an error ends the push, the answer to the last   *)
(* chunk decides it, and any other is followed by the next chunk.          *)
Receive(c) ==
    LET final  == client[c].index + 1 = Len(DocOf(c))
        failed == client[c].reply = "error"
    IN
    /\ client[c].stage = "answered"
    /\ told' = IF final /\ client[c].reply = "accepted" THEN told \cup {TransferOf(c)} ELSE told
    /\ client' = [client EXCEPT ![c].reply = "none",
                                ![c].stage = IF failed \/ final THEN "idle" ELSE "sending",
                                ![c].index = IF failed \/ final THEN @ ELSE @ + 1]
    /\ UNCHANGED <<sent, busVars, coreVars>>

-----------------------------------------------------------------------------
(* WorkspaceAssembler::accept, on the entry of the call's transfer: the    *)
(* entry after it and, when that was the last missing chunk, the document. *)
Entry(m) ==
    IF assembler[m.transfer].total = 0
    THEN [total |-> m.total, chunks |-> << >>, bytes |-> 0, key |-> m.key]
    ELSE assembler[m.transfer]

Insert(chunks, i, body) ==
    [j \in DOMAIN chunks \cup {i} |-> IF j = i THEN body ELSE chunks[j]]

Grown(m) ==
    [total  |-> Entry(m).total,
     chunks |-> Insert(Entry(m).chunks, m.index, m.body),
     bytes  |-> Entry(m).bytes + Size[m.body],
     key    |-> Entry(m).key]

IllFormed(m)  == m.total = 0 \/ m.index >= m.total
Dropped(m)    == m.total # Entry(m).total \/ Grown(m).bytes > MaxBytes
Complete(m)   == Cardinality(DOMAIN Grown(m).chunks) = m.total
Assembled(m)  == [i \in 1..m.total |-> Grown(m).chunks[i - 1]]

Fits(m) == ~ IllFormed(m) /\ ~ Dropped(m)

AuthorisedAnyway(k) == k \in Keys

(* check_workspace_key                                                     *)
Authorised(k) == k = OperatorKey

Settle(m, pending) == assembler' = [assembler EXCEPT ![m.transfer] = pending]

(* The responder answers the call it came with, if anyone still waits.      *)
Answer(m, r) ==
    client' = [c \in Clients |->
        IF client[c].stage = "waiting" /\ TransferOf(c) = m.transfer
           /\ client[c].index = m.index
        THEN [client[c] EXCEPT !.stage = "answered", !.reply = r]
        ELSE client[c]]

(* One turn of the loop on this topic.                                     *)
Take(m) ==
    /\ core = "serving" /\ topic # << >> /\ m = Head(topic)
    /\ topic' = Tail(topic)
    /\ UNCHANGED <<latest, core, epoch, sent, told>>

(* The key is checked before anything is buffered.                         *)
RefuseKey(m) ==
    /\ Take(m) /\ ~ Authorised(m.key)
    /\ Answer(m, "error")
    /\ UNCHANGED <<assembler, served, managed, claims, applied>>

RefuseChunkButKeepIt(m) ==
    /\ Take(m) /\ Authorised(m.key) /\ ~ Fits(m)
    /\ Settle(m, Grown(m))
    /\ Answer(m, "error")
    /\ UNCHANGED <<served, managed, claims, applied>>

RefuseChunk(m) ==
    /\ Take(m) /\ Authorised(m.key) /\ ~ Fits(m)
    /\ Settle(m, IF IllFormed(m) THEN assembler[m.transfer] ELSE NoPending)
    /\ Answer(m, "error")
    /\ UNCHANGED <<served, managed, claims, applied>>

Buffer(m) ==
    /\ Take(m) /\ Authorised(m.key) /\ Fits(m) /\ ~ Complete(m)
    /\ Settle(m, Grown(m))
    /\ Answer(m, "null")
    /\ UNCHANGED <<served, managed, claims, applied>>

RefuseDocument(m) ==
    /\ Take(m) /\ Authorised(m.key) /\ Fits(m) /\ Complete(m)
    /\ ~ Authorised(Grown(m).key) \/ Assembled(m) \in Refused
    /\ Settle(m, NoPending)
    /\ Answer(m, "error")
    /\ UNCHANGED <<served, managed, claims, applied>>

BindCoordinatorOnly(d) == served' = d /\ managed' = managed

(* bind_index, under the coordinator's write lock: both indexes change and  *)
(* every claim is kept, to be read under the new map from here on.         *)
BindIndex(d) == served' = d /\ managed' = d

SetWorkspace(m) ==
    /\ Take(m) /\ Authorised(m.key) /\ Fits(m) /\ Complete(m)
    /\ Authorised(Grown(m).key) /\ Assembled(m) \notin Refused
    /\ Settle(m, NoPending)
    /\ BindIndex(Assembled(m))
    /\ claims' = {[g EXCEPT !.current = FALSE] : g \in claims}
    /\ applied' = applied \cup {m.transfer}
    /\ Answer(m, "accepted")

Handle(m) ==
    RefuseKey(m) \/ RefuseChunk(m) \/ Buffer(m) \/ RefuseDocument(m) \/ SetWorkspace(m)

(* A take that fails is passed over, and the call it failed on is gone.     *)
Lose ==
    /\ core = "serving" /\ topic # << >>
    /\ topic' = Tail(topic)
    /\ UNCHANGED <<latest, coreVars, pushVars>>

-----------------------------------------------------------------------------
(* The core stops, however; the assembler and the ledger were in memory.    *)
Crash ==
    /\ core # "down" /\ epoch < EpochBound
    /\ core' = "down"
    /\ topic' = << >>
    /\ assembler' = [t \in Transfers |-> NoPending]
    /\ claims' = {}
    /\ UNCHANGED <<latest, epoch, served, managed, applied, pushVars>>

(* A new core attaches to the segments, and the last call is there again.   *)
Attach ==
    /\ core = "down"
    /\ core' = "attached" /\ epoch' = epoch + 1
    /\ topic' = IF latest = NoCall THEN << >> ELSE <<latest>>
    /\ BindIndex(BootDocument)
    /\ UNCHANGED <<latest, assembler, claims, applied, pushVars>>

(* discard_requests_predating_this_core                                    *)
Discard ==
    /\ core = "attached" /\ topic # << >>
    /\ topic' = Tail(topic)
    /\ UNCHANGED <<latest, coreVars, pushVars>>

ServeAtOnce ==
    /\ core = "attached"
    /\ core' = "serving"
    /\ UNCHANGED <<busVars, epoch, assembler, served, managed, claims, applied, pushVars>>

Serve ==
    /\ core = "attached" /\ topic = << >>
    /\ core' = "serving"
    /\ UNCHANGED <<busVars, epoch, assembler, served, managed, claims, applied, pushVars>>

-----------------------------------------------------------------------------
(* The ledger beside it: a claim names a place of the coordinator's index  *)
(* and is granted when no other robot's claim overlaps it under the claim  *)
(* manager's.  One claim per robot bounds the ledger.                      *)
Grant(r, p) ==
    /\ core = "serving"
    /\ \A g \in claims : g.robot # r
    /\ <<served, p>> \in Present
    /\ \A g \in claims : <<managed, g.place, p>> \notin Overlap
    /\ claims' = claims \cup {[robot |-> r, place |-> p, current |-> TRUE]}
    /\ UNCHANGED <<core, epoch, assembler, served, managed, applied, busVars, pushVars>>

Release(r) ==
    /\ core = "serving"
    /\ \E g \in claims : g.robot = r
    /\ claims' = {g \in claims : g.robot # r}
    /\ UNCHANGED <<core, epoch, assembler, served, managed, applied, busVars, pushVars>>

Next ==
    \/ \E c \in Clients :
        \/ \E p \in Pushes : Push(c, p[1], p[2])
        \/ Send(c) \/ GiveUp(c) \/ Receive(c)
    \/ \E m \in Written : Handle(m)
    \/ Lose \/ Crash \/ Attach \/ Discard \/ Serve
    \/ \E r \in Robots : Release(r) \/ \E p \in Places : Grant(r, p)

Spec == Init /\ [][Next]_vars

-----------------------------------------------------------------------------
(* The variables are what the code keeps, each pending transfer within its  *)
(* bounds and short of a chunk.                                            *)
PushTypeOK ==
    /\ core \in {"down", "attached", "serving"}
    /\ epoch \in 1..EpochBound
    /\ core = "down" => topic = << >>
    /\ \A m \in Written : m.transfer \in Transfers /\ m.index < m.total
    /\ \A t \in Transfers :
        /\ assembler[t].total \in Nat /\ assembler[t].bytes <= MaxBytes
        /\ DOMAIN assembler[t].chunks \subseteq 0..assembler[t].total - 1
        /\ assembler[t].total # 0 => Cardinality(DOMAIN assembler[t].chunks) < assembler[t].total
    /\ \A g \in claims : g.robot \in Robots /\ g.place \in Places

(* Whatever is buffered was sent under the number it is filed under: no     *)
(* transfer holds a chunk of two documents, or one nobody authorised       *)
(* (next_transfer_id, accept, the key check before it).                    *)
BufferedWasSent ==
    \A t \in Transfers :
        assembler[t].total # 0 =>
            /\ assembler[t].total = Len(sent[t].doc)
            /\ assembler[t].key = sent[t].key /\ sent[t].key = OperatorKey
            /\ \A i \in DOMAIN assembler[t].chunks :
                 i + 1 \in DOMAIN sent[t].doc /\ assembler[t].chunks[i] = sent[t].doc[i + 1]

(* A client told its workspace was accepted is told so of the push it made, *)
(* all of it: not after a core that held the first chunks died             *)
(* (Client::set_workspace, the answer to the last chunk).                  *)
ToldIsApplied == told \subseteq applied

(* Two claims that overlap under the map being served were both granted    *)
(* before it was: a grant is judged against the map in force, also the one *)
(* right after a push (set_workspace's bind_index under the write lock).   *)
ConflictsPredateTheMap ==
    \A g, h \in claims :
        g.robot # h.robot /\ <<served, g.place, h.place>> \in Overlap
            => ~ g.current /\ ~ h.current

(* No call made to one core is carried out by the next: the loop takes      *)
(* only what was written since this core attached                          *)
(* (discard_requests_predating_this_core).                                 *)
NothingStaleRuns ==
    [][ \A m \in Written : Handle(m) => m.epoch = epoch ]_vars

(* Pushes implement the abstract specification: the map served is replaced  *)
(* only by the whole of a document pushed with the operator's key, once    *)
(* per push, whatever is lost, timed out, replayed or interleaved.         *)
Abstract == INSTANCE ServedWorkspace WITH
    serving <- served,
    open <- {<<t, sent[t].doc>> : t \in {u \in Transfers \ applied :
                                            sent[u].doc # << >> /\ sent[u].key = OperatorKey}}

ReplacesWholeMaps == Abstract!Spec

=============================================================================
