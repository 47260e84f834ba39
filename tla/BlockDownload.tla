---------------------------- MODULE BlockDownload ----------------------------
(***************************************************************************)
(* How a node fetches blocks: CNodeState and mapBlocksInFlight of main.cpp,  *)
(* the "inv", "headers" and "block" messages, SendMessages' header           *)
(* synchronisation, its time-outs and its requests for blocks, and           *)
(* InitializeNode and FinalizeNode, which the network threads call.          *)
(*                                                                          *)
(* A peer answers our requests in the order they were sent, or, if it is in  *)
(* Slow, late or never, and may send what nobody asked for.  Clocks are left  *)
(* out: a time-out may strike any Slow peer that owes a block, and no other. *)
(* The chain is what ChainState shows it to be: the tip moves at once to the *)
(* block with the most work among those whose ancestors are all here.        *)
(***************************************************************************)
EXTENDS Integers, FiniteSets, Sequences

CONSTANTS
  Blocks, Genesis, NoBlock,
  Parent,       \* pprev
  Chain,        \* a block and its ancestors
  Height, Work, \* nHeight and nChainWork
  BadBlock,     \* blocks that ContextualCheckBlock refuses
  BadSpend,     \* blocks that ConnectBlock refuses
  Today,        \* blocks whose time is less than a day ago
  Fresh,        \* blocks whose time is less than 20 target spacings ago
  Peers, NoPeer,\* NodeIds, of one connection each
  Slow,         \* peers that need not answer
  Inbound,      \* fInbound
  Whitelisted,  \* fWhitelisted
  Announces,    \* the blocks each peer may announce
  Offers,       \* the tip of the chain each peer serves
  MaxInTransit, \* MAX_BLOCKS_IN_TRANSIT_PER_PEER
  Window,       \* BLOCK_DOWNLOAD_WINDOW
  MaxHeaders,   \* MAX_HEADERS_RESULTS
  Lag,          \* the 24 * 6 blocks of IsInitialBlockDownload
  MinKeep,      \* MIN_BLOCKS_TO_KEEP
  MaxPending    \* bound: requests a peer has not yet answered

ASSUME BlockDownloadAssumption ==
  /\ Genesis \in Blocks /\ NoBlock \notin Blocks /\ NoPeer \notin Peers
  /\ IsFiniteSet(Blocks) /\ IsFiniteSet(Peers)
  /\ Chain \in [Blocks -> SUBSET Blocks] /\ Height \in [Blocks -> Nat] /\ Work \in [Blocks -> Nat]
  /\ Chain[Genesis] = {Genesis} /\ Height[Genesis] = 0
  /\ \A b \in Blocks \ {Genesis} :
       /\ Parent[b] \in Blocks /\ Chain[b] = {b} \cup Chain[Parent[b]]
       /\ Height[b] = Height[Parent[b]] + 1 /\ Work[b] > Work[Parent[b]]
  /\ BadBlock \cup BadSpend \subseteq Blocks \ {Genesis}
  /\ Slow \cup Inbound \cup Whitelisted \subseteq Peers
  /\ Offers \in [Peers -> Blocks] /\ Announces \in [Peers -> SUBSET Blocks]
  /\ \A p \in Peers \ Slow : Announces[p] \subseteq Chain[Offers[p]]
  /\ MaxInTransit \in Nat \ {0} /\ Window \in Nat \ {0} /\ MaxHeaders \in Nat \ {0}

VARIABLES
  conn,       \* the connection of each peer; "closing" is fDisconnect
  node,       \* mapNodeState
  inFlight,   \* mapBlocksInFlight: the peer a block is asked of
  nQueued,    \* nQueuedValidatedHeaders
  nPreferred, \* nPreferredDownload
  nSync,      \* nSyncStarted
  index,      \* mapBlockIndex
  data,       \* blocks received (nTx) and on disk (BLOCK_HAVE_DATA)
  failed,     \* blocks with a bit of BLOCK_FAILED_MASK
  tip,        \* chainActive.Tip()
  bestHeader, \* pindexBestHeader
  source,     \* mapBlockSource, of the blocks it is read for
  locked,     \* lockIBDState
  requests    \* "getheaders" and "getdata" a peer has not answered yet

chainVars == <<index, data, failed, tip, bestHeader, source>>
vars == <<conn, node, inFlight, nQueued, nPreferred, nSync, chainVars, locked, requests>>

(* CNodeState() *)
CNodeState == [best |-> NoBlock, unknown |-> NoBlock, common |-> NoBlock, sync |-> FALSE,
               stalling |-> FALSE, blocks |-> {}, n |-> 0, nValid |-> 0,
               preferred |-> FALSE, shouldBan |-> FALSE]

Init ==
  /\ conn = [p \in Peers |-> "away"] /\ node = [p \in Peers |-> CNodeState]
  /\ inFlight = [b \in {} |-> NoPeer] /\ nQueued = 0 /\ nPreferred = 0 /\ nSync = 0
  /\ index = {Genesis} /\ data = {Genesis} /\ failed = {}
  /\ tip = Genesis /\ bestHeader = Genesis /\ source = [b \in BadSpend |-> NoPeer]
  /\ locked = FALSE
  /\ requests = [p \in Peers |-> <<>>]
-----------------------------------------------------------------------------
GetHeaders(from, stop) == [ask |-> "headers", block |-> from, stop |-> stop]
GetData(b) == [ask |-> "data", block |-> b, stop |-> NoBlock]

Highest(S) == CHOOSE b \in S : \A c \in S : Height[c] <= Height[b]
InOrder(S) == [i \in 1..Cardinality(S) |->
                 CHOOSE b \in S : Cardinality({c \in S : Height[c] < Height[b]}) = i - 1]
LastCommonAncestor(a, b) == Highest(Chain[a] \cap Chain[b])
Linked(D) == {b \in Blocks : Chain[b] \subseteq D}   \* nChainTx is not 0

Behind(b, header) == Height[b] < Height[header] - Lag \/ header \notin Today
IsInitialBlockDownload == ~locked /\ Behind(tip, bestHeader)

(* ProcessBlockAvailability and UpdateBlockAvailability, on a CNodeState and *)
(* with the block index I.                                                  *)
Better(s, b) == IF s.best = NoBlock \/ Work[b] >= Work[s.best] THEN b ELSE s.best
ProcessBlockAvailability(s, I) ==
  IF s.unknown \in I THEN [s EXCEPT !.best = Better(s, s.unknown), !.unknown = NoBlock] ELSE s
UpdateBlockAvailability(s, b, I) ==
  LET t == ProcessBlockAvailability(s, I)
  IN IF b \in I THEN [t EXCEPT !.best = Better(t, b)] ELSE [t EXCEPT !.unknown = b]

(* What is in flight, as the functions below pass it on: the CNodeStates,    *)
(* mapBlocksInFlight and nQueuedValidatedHeaders.                            *)
Flight(S) == [node |-> S, map |-> inFlight, queued |-> nQueued]
SetFlight(f) == node' = f.node /\ inFlight' = f.map /\ nQueued' = f.queued
ValidOf(s, S) == {e \in s.blocks : e.hash \in S /\ e.valid}

(* MarkBlockAsReceived for each block of S: what becomes of the CNodeState s  *)
(* of the peer they are asked of, and of the whole.                          *)
Fewer(s, S) == [s EXCEPT !.blocks = {e \in @ : e.hash \notin S},
                         !.n = @ - Cardinality(S),
                         !.nValid = @ - Cardinality(ValidOf(s, S))]
FewerUncounted(s, S) == [Fewer(s, S) EXCEPT !.stalling = FALSE, !.n = s.n]   \* nBlocksInFlight-- left out
Delivered(s, S) == [Fewer(s, S) EXCEPT !.stalling = FALSE]
MarkBlockAsReceived(f, S) ==
  LET listed == S \cap DOMAIN f.map
      mine(q) == {b \in listed : f.map[b] = q}
  IN [node |-> [q \in Peers |-> IF mine(q) = {} THEN f.node[q] ELSE Delivered(f.node[q], mine(q))],
      map |-> [b \in DOMAIN f.map \ S |-> f.map[b]],
      queued |-> f.queued - Cardinality({b \in listed : ValidOf(f.node[f.map[b]], {b}) # {}})]

(* MarkBlockAsInFlight for each block of S, with or without its index entry. *)
MarkBlockAsInFlight(f0, p, S, valid) ==
  LET f == MarkBlockAsReceived(f0, S)
      more == IF valid THEN Cardinality(S) ELSE 0
  IN [node |-> [f.node EXCEPT ![p].blocks = @ \cup [hash : S, valid : {valid}],
                              ![p].n = @ + Cardinality(S),
                              ![p].nValid = @ + more],
      map |-> [b \in DOMAIN f.map \cup S |-> IF b \in S THEN p ELSE f.map[b]],
      queued |-> f.queued + more]
-----------------------------------------------------------------------------
Anything(S) == S              \* the test left out
Linking(S) == S \cap Linked(data)
Unasked(S) == S \ DOMAIN inFlight

NothingFrom(s) == [state |-> s, want |-> {}, staller |-> NoPeer]

(* FindNextBlocksToDownload: from the last common block along the path to the *)
(* peer's best one, up to the first block past the window.  It comes only to  *)
(* the blocks of Seen: it stops at an invalid one, and when it has room for   *)
(* no more.                                                                 *)
CommonWith(s) ==
  LastCommonAncestor(IF s.common = NoBlock
                     THEN Highest({b \in Chain[tip] : Height[b] <= Height[s.best]})
                     ELSE s.common, s.best)
Walk(best, common) ==
  {b \in Chain[best] : Height[common] < Height[b] /\ Height[b] <= Height[common] + Window + 1}
Have(walk) == walk \cap (data \cup Chain[tip])
Free(walk) == Unasked(walk \ Have(walk))
Seen(walk, room) ==
  LET free == Free(walk)
      upTo(b) == {c \in walk : Height[c] <= Height[b]}
  IN {b \in walk : upTo(b) \cap failed = {} /\ Cardinality((free \cap upTo(b)) \ {b}) < room}
FirstAsked(busy) ==
  IF busy = {} THEN NoPeer ELSE inFlight[CHOOSE b \in busy : \A c \in busy : Height[b] <= Height[c]]

(* What is asked of p, and the peer that keeps the window from moving.        *)
Found(p, s, common, seen) ==
  LET want == {b \in Free(seen) : Height[b] <= Height[common] + Window}
      waitingfor == FirstAsked((seen \ Have(seen)) \cap DOMAIN inFlight)
  IN [state |-> [s EXCEPT !.common = Highest({common} \cup Linking(Have(seen)))],
      want |-> want,
      staller |-> IF want = {} /\ Free(seen) # {} /\ waitingfor # p THEN waitingfor ELSE NoPeer]
FindIn(p, s) ==
  IF s.best = NoBlock \/ Work[s.best] < Work[tip] THEN NothingFrom(s)
  ELSE LET common == CommonWith(s)
       IN Found(p, s, common, Seen(Walk(s.best, common), MaxInTransit - s.n))
FindNextBlocksToDownload(p, s) == FindIn(p, ProcessBlockAvailability(s, index))

Fetch(p) == node[p].preferred \/ nPreferred = 0
ToAsk(p, s) ==
  IF s.n < MaxInTransit /\ (Fetch(p) \/ ~IsInitialBlockDownload)
  THEN FindNextBlocksToDownload(p, s) ELSE NothingFrom(s)

(* SendMessages: the ban, the start of header synchronisation, the time-outs  *)
(* of a stalling peer and of its oldest request, then the requests for blocks.*)
(* The socket thread may set fDisconnect meanwhile.                          *)
SendMessagesTo(p, late, closed) ==
  /\ conn[p] = "up"
  /\ late => p \in Slow /\ (node[p].stalling \/ node[p].blocks # {})
  /\ LET start == /\ ~node[p].sync
                  /\ (nSync = 0 /\ Fetch(p)) \/ bestHeader \in Today
         s == [node[p] EXCEPT !.shouldBan = FALSE, !.sync = @ \/ start]
         disconnect == closed \/ late \/ (node[p].shouldBan /\ p \notin Whitelisted)
         found == IF disconnect THEN NothingFrom(s) ELSE ToAsk(p, s)
         f == MarkBlockAsInFlight(Flight([node EXCEPT ![p] = found.state]), p, found.want, TRUE)
         from == IF bestHeader = Genesis THEN Genesis ELSE Parent[bestHeader]
     IN /\ SetFlight(IF f.node[p].n = 0 /\ found.staller # NoPeer
                     THEN [f EXCEPT !.node[found.staller].stalling = TRUE] ELSE f)
        /\ nSync' = IF start THEN nSync + 1 ELSE nSync
        /\ requests' = [requests EXCEPT ![p] =
                          @ \o (IF start THEN <<GetHeaders(from, NoBlock)>> ELSE <<>>)
                            \o [i \in 1..Cardinality(found.want) |-> GetData(InOrder(found.want)[i])]]
        /\ conn' = [conn EXCEPT ![p] = IF disconnect THEN "closing" ELSE @]
  /\ locked' = ~IsInitialBlockDownload
  /\ UNCHANGED <<nPreferred, chainVars>>

SendMessages == \E p \in Peers : \E late, closed \in BOOLEAN : SendMessagesTo(p, late, closed)
-----------------------------------------------------------------------------
(* Misbehaving(p, dos): the score is left out, so that any smaller penalty    *)
(* may be the one that reaches -banscore.                                    *)
Misbehaving(s, p, dos) ==
  {t \in {s, [s EXCEPT ![p].shouldBan = TRUE]} : (dos = 0 => t = s) /\ (dos >= 100 => t[p].shouldBan)}

(* AcceptBlockHeader, when the index is I: what it refuses and the penalty.   *)
GoodHeader(b, I) == IF b \in I THEN b \notin failed ELSE Parent[b] \in I \ failed
HeaderDoS(b, I) == IF b \in I THEN 0 ELSE IF Parent[b] \in I THEN 100 ELSE 10
AddToBlockIndex(S) ==
  /\ index' = index \cup S
  /\ bestHeader' = IF S # {} /\ Work[Highest(S)] > Work[bestHeader] THEN Highest(S) ELSE bestHeader

(* An "inv" message with a block: the headers are asked for before the block. *)
DataFirst(b, direct) == (IF direct THEN <<GetData(b)>> ELSE <<>>) \o <<GetHeaders(bestHeader, b)>>
HeadersFirst(b, direct) == <<GetHeaders(bestHeader, b)>> \o (IF direct THEN <<GetData(b)>> ELSE <<>>)
ReceiveInv == \E p \in Peers : \E b \in Announces[p] :
  /\ conn[p] = "up" /\ Len(requests[p]) < MaxPending
  /\ LET f == Flight([node EXCEPT ![p] = UpdateBlockAvailability(@, b, index)])
         new == b \notin index /\ b \notin DOMAIN inFlight
         direct == new /\ tip \in Fresh /\ node[p].n < MaxInTransit
     IN /\ SetFlight(IF direct THEN MarkBlockAsInFlight(f, p, {b}, FALSE) ELSE f)
        /\ requests' = [requests EXCEPT ![p] =
                          @ \o (IF new THEN HeadersFirst(b, direct) ELSE <<>>)]
  /\ UNCHANGED <<conn, nPreferred, nSync, chainVars, locked>>

(* A "headers" message with the blocks of S, a path; pending are the requests *)
(* that p has still to answer.                                               *)
ReceiveHeaders(p, S, pending) ==
  /\ LET below(b) == {c \in S : Height[c] < Height[b]}
         refused == {b \in S : ~GoodHeader(b, index \cup below(b))}
         first == CHOOSE b \in refused : below(b) \cap refused = {}
         last == Highest(S)
     IN \/ /\ S = {}
           /\ requests' = [requests EXCEPT ![p] = pending]
           /\ UNCHANGED <<node, index, bestHeader>>
        \/ /\ refused # {}
           /\ AddToBlockIndex(below(first) \ index)
           /\ node' \in Misbehaving(node, p, HeaderDoS(first, index \cup below(first)))
           /\ requests' = [requests EXCEPT ![p] = pending]
        \/ /\ S # {} /\ refused = {}
           /\ AddToBlockIndex(S \ index)
           /\ node' = [node EXCEPT ![p] = UpdateBlockAvailability(@, last, index')]
           /\ requests' = [requests EXCEPT ![p] =
                IF Cardinality(S) = MaxHeaders THEN Append(pending, GetHeaders(last, NoBlock)) ELSE pending]
  /\ UNCHANGED <<conn, inFlight, nQueued, nPreferred, nSync, data, failed, tip, source, locked>>

(* ActivateBestChain once the blocks of D are here: the tip, what is found    *)
(* invalid on the way to it, and whom that is held against.                  *)
ActivateBestChain(D, s) ==
  LET unfit(b) == Chain[b] \cap (BadSpend \cup failed) # {}
      fit == {b \in Linked(D) : ~unfit(b)}
      most == {b \in fit : \A c \in fit : Work[c] <= Work[b]}
  IN \E best \in (IF tip \in most THEN {tip} ELSE most) :
     \E tried \in SUBSET {b \in Linked(D) : unfit(b) /\ Work[b] >= Work[best]} :
       LET marked == {b \in UNION {Chain[c] : c \in tried} : unfit(b)}
           found == {b \in marked \ failed : Chain[b] \cap (BadSpend \cup failed) = {b}}
           guilty == {source'[b] : b \in found}
       IN /\ {b \in Linked(D) : unfit(b) /\ Work[b] > Work[best]} \subseteq tried
          /\ tip' = best
          /\ failed' = failed \cup marked
          /\ node' = [p \in Peers |->
                        IF p \in guilty /\ conn[p] \notin {"away", "gone"}
                        THEN [s[p] EXCEPT !.shouldBan = TRUE] ELSE s[p]]
-----------------------------------------------------------------------------
(* Where ActivateBestChain asks for IsInitialBlockDownload: UpdateTip at every *)
(* tip it moves to, InvalidChainFound below every block it finds invalid.     *)
TipsPassed ==
  LET below == {Parent[b] : b \in {c \in (failed' \ failed) \cap (BadSpend \ BadBlock) :
                                Parent[c] \notin failed'}}
      ends == {tip'} \cup below
      left == UNION {Chain[tip] \ Chain[b] : b \in ends}
  IN IF tip' = tip /\ below = {} THEN {} ELSE ends \cup {Parent[b] : b \in left}

SourceOf(b, p) == [c \in BadSpend |-> IF c = b THEN p ELSE source[c]]

(* A "block" message, ProcessNewBlock: the contents may not pass CheckBlock.  *)
ReceiveBlock(p, b, checked, pending) ==
  /\ conn[p] = "up"
  /\ LET f == MarkBlockAsReceived(Flight(node), {b})
         forced == p \in Whitelisted /\ ~IsInitialBlockDownload
         wanted == \/ b \in DOMAIN inFlight \/ forced
                   \/ b \notin data /\ Work[b] > Work[tip] /\ Height[b] <= Height[tip] + MinKeep
     IN /\ inFlight' = f.map /\ nQueued' = f.queued
        /\ \/ /\ ~checked
              /\ node' \in Misbehaving(f.node, p, 100)
              /\ UNCHANGED chainVars
           \/ /\ checked /\ ~GoodHeader(b, index)
              /\ node' \in Misbehaving(f.node, p, HeaderDoS(b, index))
              /\ source' = IF b \in index THEN SourceOf(b, p) ELSE source
              /\ UNCHANGED <<index, data, failed, tip, bestHeader>>
           \/ /\ checked /\ GoodHeader(b, index)
              /\ AddToBlockIndex({b} \ index)
              /\ source' = SourceOf(b, p)
              /\ \/ /\ b \in data \/ ~wanted
                    /\ node' = f.node
                    /\ UNCHANGED <<data, failed, tip>>
                 \/ /\ b \notin data /\ wanted /\ b \in BadBlock
                    /\ failed' = failed \cup {b}
                    /\ node' \in Misbehaving(f.node, p, 10)
                    /\ UNCHANGED <<data, tip>>
                 \/ /\ b \notin data /\ wanted /\ b \notin BadBlock
                    /\ data' = data \cup {b}
                    /\ ActivateBestChain(data', f.node)
        /\ locked' = (locked \/ forced \/ \E c \in TipsPassed : ~Behind(c, bestHeader'))
  /\ requests' = [requests EXCEPT ![p] = pending]
  /\ UNCHANGED <<conn, nPreferred, nSync>>

(* The peer answers its oldest request, as "getheaders" and "getdata" are     *)
(* answered by this code.                                                   *)
HeadersOf(p, request) ==
  LET fork == LastCommonAncestor(request.block, Offers[p])
      next == {b \in Chain[Offers[p]] : Height[b] > Height[fork] /\ Height[b] <= Height[fork] + MaxHeaders}
  IN IF request.stop \in next THEN {b \in next : Height[b] <= Height[request.stop]} ELSE next
AnswerOf(p) ==
  /\ conn[p] = "up" /\ requests[p] # <<>>
  /\ LET request == Head(requests[p])
     IN \/ request.ask = "headers" /\ ReceiveHeaders(p, HeadersOf(p, request), Tail(requests[p]))
        \/ /\ request.ask = "data" /\ request.block \in Chain[Offers[p]]
           /\ \E checked \in BOOLEAN : /\ checked \/ p \in Slow
                                       /\ ReceiveBlock(p, request.block, checked, Tail(requests[p]))
Answer == \E p \in Peers : AnswerOf(p)

(* A Slow peer leaves a request without an answer, or sends what it likes.    *)
NoAnswer == \E p \in Slow :
  /\ conn[p] = "up" /\ requests[p] # <<>>
  /\ requests' = [requests EXCEPT ![p] = Tail(@)]
  /\ UNCHANGED <<conn, node, inFlight, nQueued, nPreferred, nSync, chainVars, locked>>
Unrequested == \E p \in Slow : \E b \in Chain[Offers[p]] : ReceiveBlock(p, b, TRUE, requests[p])

(* InitializeNode in CNode's constructor, and the "version" message: before   *)
(* it nothing else is heard from the peer or said to it.                     *)
UpdatePreferredDownload(p) ==
  LET preferred == p \notin Inbound \/ p \in Whitelisted
  IN /\ nPreferred' = IF preferred THEN nPreferred + 1 ELSE nPreferred
     /\ node' = [node EXCEPT ![p] = [CNodeState EXCEPT !.preferred = preferred]]
Connect == \E p \in Peers :
  /\ conn[p] = "away"
  /\ conn' = [conn EXCEPT ![p] = "up"]
  /\ UpdatePreferredDownload(p)
  /\ UNCHANGED <<inFlight, nQueued, nSync, chainVars, locked, requests>>

(* fDisconnect, set by the socket thread or before it; then ~CNode.           *)
CloseSocketDisconnect == \E p \in Peers :
  /\ conn[p] = "up"
  /\ conn' = [conn EXCEPT ![p] = "closing"]
  /\ UNCHANGED <<node, inFlight, nQueued, nPreferred, nSync, chainVars, locked, requests>>
SyncEnded(p) == nSync - 1   \* whether or not it was started
SyncLeft(p) == IF node[p].sync THEN nSync - 1 ELSE nSync
Kept(p) == inFlight         \* mapBlocksInFlight.erase left out
Erased(p) == LET hashes == {e.hash : e \in node[p].blocks}
             IN [b \in DOMAIN inFlight \ hashes |-> inFlight[b]]
FinalizeNodeOf(p) ==
  /\ conn[p] = "closing"
  /\ conn' = [conn EXCEPT ![p] = "gone"]
  /\ nSync' = SyncLeft(p)
  /\ nPreferred' = IF node[p].preferred THEN nPreferred - 1 ELSE nPreferred
  /\ inFlight' = Erased(p)
  /\ node' = [node EXCEPT ![p] = CNodeState]
  /\ requests' = [requests EXCEPT ![p] = <<>>]
  /\ UNCHANGED <<nQueued, chainVars, locked>>
FinalizeNode == \E p \in Peers : FinalizeNodeOf(p)

Next ==
  \/ SendMessages \/ ReceiveInv \/ Answer \/ NoAnswer \/ Unrequested
  \/ Connect \/ CloseSocketDisconnect \/ FinalizeNode

Spec == Init /\ [][Next]_vars

(* Weak fairness, written out for the actions whose ENABLED is known: the      *)
(* message handler comes to a peer that answers, such a peer answers, one     *)
(* that does not runs into a time-out, and sockets that are to be closed are  *)
(* closed.                                                                  *)
CanAsk(p) == conn[p] = "up" /\ LET to == ToAsk(p, node[p]) IN to.want # {} \/ to.state # node[p]
Owes(p) == conn[p] = "up" /\ (node[p].stalling \/ node[p].blocks # {})
Pending(p) == conn[p] = "up" /\ requests[p] # <<>>
Fairness ==
  /\ \A p \in Peers \ Slow : /\ []<>~CanAsk(p) \/ []<><<SendMessagesTo(p, FALSE, FALSE)>>_vars
                             /\ []<>~Pending(p) \/ []<><<AnswerOf(p)>>_vars
  /\ \A p \in Slow : []<>~Owes(p) \/ []<><<SendMessagesTo(p, TRUE, FALSE)>>_vars
  /\ WF_vars(FinalizeNode)
LiveSpec == Spec /\ Fairness
-----------------------------------------------------------------------------
Connected == {p \in Peers : conn[p] \notin {"away", "gone"}}   \* have a CNodeState
RequestType == [ask : {"headers", "data"}, block : Blocks, stop : Blocks \cup {NoBlock}]
CNodeStateType ==
  [best : Blocks \cup {NoBlock}, unknown : Blocks \cup {NoBlock}, common : Blocks \cup {NoBlock},
   sync : BOOLEAN, stalling : BOOLEAN, blocks : SUBSET [hash : Blocks, valid : BOOLEAN],
   n : Nat, nValid : Nat, preferred : BOOLEAN, shouldBan : BOOLEAN]

(* The variables have the types of the code's; no counter goes below zero.    *)
DownloadTypeOK ==
  /\ conn \in [Peers -> {"away", "up", "closing", "gone"}]
  /\ node \in [Peers -> CNodeStateType]
  /\ DOMAIN inFlight \subseteq Blocks /\ inFlight \in [DOMAIN inFlight -> Peers]
  /\ nQueued \in Nat /\ nPreferred \in Nat /\ nSync \in Nat
  /\ index \subseteq Blocks /\ data \subseteq index /\ failed \subseteq index
  /\ tip \in data /\ bestHeader \in index /\ source \in [BadSpend -> Peers \cup {NoPeer}]
  /\ locked \in BOOLEAN
  /\ requests \in [Peers -> Seq(RequestType)]

(* mapBlocksInFlight, the lists of the CNodeStates and their two counters say *)
(* the same, no block is asked of two peers or of one that is gone, and the   *)
(* counts of preferred and of synchronising peers are those of the flags.     *)
(* nQueuedValidatedHeaders, "Number of blocks in flight with validated        *)
(* headers", is only a bound: FinalizeNode takes nothing from it.             *)
InFlightExact ==
  /\ \A b \in DOMAIN inFlight : inFlight[b] \in Connected
  /\ \A p \in Peers :
       /\ {e.hash : e \in node[p].blocks} = {b \in DOMAIN inFlight : inFlight[b] = p}
       /\ node[p].n = Cardinality({b \in DOMAIN inFlight : inFlight[b] = p})
       /\ node[p].n = Cardinality(node[p].blocks)
       /\ node[p].nValid = Cardinality({e \in node[p].blocks : e.valid})
       /\ p \notin Connected => node[p] = CNodeState
  /\ nSync = Cardinality({p \in Peers : node[p].sync})
  /\ nPreferred = Cardinality({p \in Peers : node[p].preferred})
  /\ nQueued >= Cardinality({b \in DOMAIN inFlight : ValidOf(node[inFlight[b]], {b}) # {}})

(* A peer is only held to be stalling while it owes a block: the two-second   *)
(* time-out never strikes one of which nothing is asked.                     *)
StallingOwes == \A p \in Peers : node[p].stalling => node[p].blocks # {}

(* "The last full block we both have": the search for blocks to ask for       *)
(* starts above it, so that all up to it must be here, and the peer must have *)
(* announced a chain that contains it.                                       *)
CommonIsHad == \A p \in Peers :
  node[p].common # NoBlock =>
    /\ node[p].common \in Linked(data)
    /\ p \notin Slow => node[p].common \in Chain[Offers[p]]

(* A peer that answers with a chain of valid blocks is never punished: the    *)
(* headers a block needs are asked for before it.                            *)
HonestUnpunished == \A p \in Peers \ Slow :
  Chain[Offers[p]] \cap (BadBlock \cup BadSpend) = {} => ~node[p].shouldBan

(* Once a preferred peer is known to have its best block, that is downloaded, *)
(* unless its chain turns out invalid or to have less work than ours, or the  *)
(* peer goes: one that does not answer holds a block back only for so long.   *)
EventuallyDownloaded == \A p \in Peers \ Slow : LET b == Offers[p] IN
  (conn[p] = "up" /\ node[p].preferred /\ node[p].best = b)
    ~> (conn[p] # "up" \/ b \in Linked(data) \/ Chain[b] \cap failed # {} \/ Work[b] < Work[tip])

(* The map of the blocks in flight implements BlockAssignment: no block is    *)
(* taken from the peer it is asked of, and no peer is asked for more than 16. *)
Assignment == INSTANCE BlockAssignment WITH
  askedOf <- [b \in Blocks |-> IF b \in DOMAIN inFlight THEN inFlight[b] ELSE NoPeer]
AskedOfOnePeer == Assignment!Spec
=============================================================================
