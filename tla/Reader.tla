------------------------------- MODULE Reader -------------------------------
(***************************************************************************)
(* ir.Reader: a buffer over an io.Reader with the unconsumed IR in         *)
(* buf[start .. end - 1], and the Deserializer that decodes from it.       *)
(*                                                                         *)
(* Every method of a Reader is a loop that tries to decode, and on         *)
(* IncompleteIr fills the buffer and tries again.  One action is one try,  *)
(* one turn of the C++ scanning loop, or one fillBuf; pc says which comes  *)
(* next.  The stream is picked in the initial state and never changes.     *)
(*                                                                         *)
(* GrowsAtHalf, NeverGrows, ShiftedFromFront, AcceptsLater, StartStays,    *)
(* StartAbsolute, StartPastTheEnd, StartOverMatchOnly and                  *)
(* StartOverLateEvent are mutated forms of the definitions after them.     *)
(***************************************************************************)
EXTENDS WildcardMatch

CONSTANTS
    Messages,     \* log messages
    Streams,      \* the streams an io.Reader may deliver
    InitialSize,  \* size given to NewReaderSize
    Filters,      \* arguments of ReadToFunc: [since, msgs]
    QueryLists,   \* arguments of ReadToWildcardMatch: sequences of WildcardQuery
    Intervals     \* time intervals: [lower, upper]

ASSUME StreamsAssumption == \A s \in Streams : IsStream(s, Messages)
ASSUME SizeAssumption == InitialSize \in Nat
ASSUME FiltersAssumption == Filters \subseteq [since : Times, msgs : SUBSET Messages]
ASSUME QueriesAssumption ==
    /\ QueryLists \subseteq Seq(WildcardQuery)
    /\ Intervals \subseteq [lower : Times, upper : Times]

VARIABLES
    stream,     \* the stream behind the io.Reader
    delivered,  \* bytes the io.Reader has delivered
    buf, cap,   \* reader.buf and its length
    start, end, \* reader.start and reader.end
    pc,         \* where the running method is
    call,       \* the running method, or the one that returned last
    scanPos,    \* position of the C++ BufferReader within the window
    ret,        \* what the last call returned
    from,       \* (history) bytes consumed when the call began
    wasted      \* (history) a scan decoded events and did not succeed

ioVars  == <<stream, delivered>>
bufVars == <<buf, cap, start, end>>
vars    == <<desVars, ioVars, bufVars, pc, call, scanPos, ret, from, wasted>>

(* Bytes of the stream before reader.start: what the user has consumed. *)
Consumed == delivered - (end - start)

PCs == {"open", "preamble", "idle", "deser", "scan", "fill", "failed"}

NewCall    == [op |-> "new"]
ReadCall   == [op |-> "read"]
FuncCall(f) == [op |-> "func", since |-> f.since, msgs |-> f.msgs]
ScanCall(op, q, i) ==
    [op |-> op, queries |-> q, merged |-> MergeWildcardQueries(q),
     lower |-> i.lower, upper |-> i.upper]

WholeIr == [lower |-> 0, upper |-> MaxTime]

IsCall(c) ==
    \/ c \in {NewCall, ReadCall}
    \/ \E f \in Filters : c = FuncCall(f)
    \/ \E q \in QueryLists : c = ScanCall("matchAll", q, WholeIr)
    \/ \E q \in QueryLists, i \in Intervals : c = ScanCall("match", q, i)

Scanning == call.op \in {"match", "matchAll"}

NoResult == [err |-> Success, ts |-> 0, index |-> -1]
Failure(err) == [err |-> err, ts |-> 0, index |-> -1]

-----------------------------------------------------------------------------
Init ==
    /\ stream \in Streams
    /\ delivered = 0
    /\ cap = InitialSize
    /\ buf = [k \in 0 .. InitialSize - 1 |-> 0]
    /\ start = 0
    /\ end = 0
    /\ DesInit
    /\ pc = "open"
    /\ call = NewCall
    /\ scanPos = 0
    /\ ret = NoResult
    /\ from = 0
    /\ wasted = FALSE

(* reader.read(): the io.Reader puts n more bytes behind the first e bytes *)
(* of the buffer b of size c.  n may be 0, with or without io.EOF, and     *)
(* io.EOF is not forwarded whatever n is.                                  *)
ReadInto(b, e, c, n) ==
    /\ n <= c - e
    /\ delivered + n <= stream.len
    /\ buf' = [k \in 0 .. c - 1 |-> IF k >= e /\ k < e + n THEN delivered + 1 + (k - e) ELSE b[k]]
    /\ cap' = c
    /\ end' = e + n
    /\ delivered' = delivered + n
    /\ UNCHANGED stream

Return(r) ==
    /\ pc' = "idle"
    /\ ret' = r

(* The call ends because of an error; NewReaderSize then returns no Reader. *)
Fail(err) ==
    /\ pc' = IF call = NewCall THEN "failed" ELSE "idle"
    /\ ret' = Failure(err)

(* The error of an io.Reader, forwarded after its bytes were taken. *)
ReadOutcome(next) ==
    \/ pc' = next /\ UNCHANGED ret
    \/ Fail(IoError)

-----------------------------------------------------------------------------
(* NewReaderSize: one read, then the loop around DeserializePreamble. *)
FirstRead(n) ==
    /\ pc = "open"
    /\ ReadInto(buf, end, cap, n)
    /\ ReadOutcome("preamble")
    /\ UNCHANGED <<desVars, start, call, scanPos, from, wasted>>

TryPreamble ==
    /\ pc = "preamble"
    /\ LET r == PreambleResult(stream, buf, start, end)
       IN  /\ PreambleEffect(stream, buf, start, end)
           /\ start' = r.pos
           /\ CASE r.err = IncompleteIr -> pc' = "fill" /\ UNCHANGED ret
                [] r.err = Success      -> Return(NoResult)
                [] OTHER                -> Fail(r.err)
    /\ UNCHANGED <<ioVars, buf, cap, end, call, scanPos, from, wasted>>

(* fillBuf: the window moves to the front of the buffer, or of one twice   *)
(* as large if it takes more than half of this one.                        *)
GrowsAtHalf == end - start >= cap \div 2
NeverGrows  == FALSE
Grows       == end - start > cap \div 2

ShiftedFromFront ==
    [k \in 0 .. (IF Grows THEN 2 * cap ELSE cap) - 1 |->
        IF k < end - start THEN buf[k] ELSE 0]

Shifted ==
    [k \in 0 .. (IF Grows THEN 2 * cap ELSE cap) - 1 |->
        IF k < end - start THEN buf[start + k] ELSE IF Grows THEN 0 ELSE buf[k]]

FillBuf(n) ==
    /\ pc = "fill"
    /\ ReadInto(Shifted, end - start, IF Grows THEN 2 * cap ELSE cap, n)
    /\ start' = 0
    /\ ReadOutcome(IF call = NewCall THEN "preamble" ELSE "deser")
    /\ UNCHANGED <<desVars, call, scanPos, from, wasted>>

-----------------------------------------------------------------------------
(* The user calls a method. *)
Begin(c) ==
    /\ pc = "idle"
    /\ pc' = "deser"
    /\ call' = c
    /\ from' = Consumed
    /\ ret' = NoResult
    /\ UNCHANGED <<desVars, ioVars, bufVars, scanPos, wasted>>

Read == Begin(ReadCall)

ReadToFunc == \E f \in Filters : Begin(FuncCall(f))

ReadToWildcardMatch ==
    \E q \in QueryLists : Begin(ScanCall("matchAll", q, WholeIr))

ReadToWildcardMatchWithTimeInterval ==
    \E q \in QueryLists, i \in Intervals : Begin(ScanCall("match", q, i))

(* Close; calling it again changes nothing. *)
Close ==
    /\ pc = "idle"
    /\ cptr
    /\ DesClose
    /\ UNCHANGED <<ioVars, bufVars, pc, call, scanPos, ret, from, wasted>>

(* Whether the method is content with the event of item j: Read with any,  *)
(* ReadToFunc when f returns true.                                         *)
AcceptsLater(ts, j) ==
    call.op = "func" => ts > call.since /\ stream.items[j].msg \in call.msgs

Accepts(ts, j) ==
    call.op = "func" => ts >= call.since /\ stream.items[j].msg \in call.msgs

(* reader.start += pos, only after a successful decode. *)
StartStays(r)       == start
StartAbsolute(r)    == IF r.err = Success THEN EndOf(stream, r.item) ELSE start
StartPastTheEnd(r)  == IF r.err \in {Success, EndOfIr}
                       THEN start + Width(stream, r.item) ELSE start
StartAfter(r)       == IF r.err = Success
                       THEN start + Width(stream, r.item) ELSE start

(* One try of Read, or of the Read that ReadToFunc loops over. *)
TryRead ==
    /\ pc = "deser"
    /\ ~Scanning
    /\ \E r \in {LogEventResult(stream, buf, start, end)} :
           /\ LogEventEffect(start, end, r)
           /\ start' = StartAfter(r)
           /\ CASE r.err = IncompleteIr -> pc' = "fill" /\ UNCHANGED ret
                [] r.err = Success ->
                     IF Accepts(r.ts, r.item)
                     THEN Return([err |-> Success, ts |-> r.ts, index |-> -1])
                     ELSE UNCHANGED <<pc, ret>>
                [] OTHER -> Fail(r.err)
    /\ UNCHANGED <<ioVars, buf, cap, end, call, scanPos, from, wasted>>

(* A try of ReadToWildcardMatchWithTimeInterval enters the native scan, if *)
(* the slice is not empty and the handle not closed.                       *)
EnterScan ==
    /\ pc = "deser"
    /\ Scanning
    /\ CASE start = end           -> pc' = "fill" /\ UNCHANGED ret
         [] start # end /\ ~cptr  -> Fail(CorruptedIr)
         [] start # end /\ cptr   -> pc' = "scan" /\ UNCHANGED ret
    /\ UNCHANGED <<desVars, ioVars, bufVars, call, scanPos, from, wasted>>

(* Only a match moves reader.start, over everything scanned; any other end *)
(* of the scan leaves it where it was.                                     *)
StartOverMatchOnly(err, pos)    == IF err = Success THEN start + pos - scanPos ELSE start
StartOverLateEvent(err, pos)    == IF err \in {Success, QueryNotFound} THEN start + pos ELSE start
StartAfterScan(err, pos)        == IF err = Success THEN start + pos ELSE start

(* One turn of the native loop. *)
ScanEvent ==
    /\ pc = "scan"
    /\ \E turn \in {ScanResult(stream, buf, start + scanPos, end, call)} :
       LET d   == turn.event
           err == turn.err
           pos == scanPos + Width(stream, d.item)
       IN  /\ ScanEffect(start + scanPos, end, d)
           /\ start' = StartAfterScan(err, pos)
           /\ scanPos' = IF err = Again THEN pos ELSE 0
           /\ wasted' = (wasted \/ (err \notin {Again, Success} /\ (scanPos > 0 \/ d.err = Success)))
           /\ CASE err = Again        -> UNCHANGED <<pc, ret>>
                [] err = IncompleteIr -> pc' = "fill" /\ UNCHANGED ret
                [] err = Success      ->
                     Return([err |-> Success, ts |-> d.ts, index |-> turn.index])
                [] OTHER              -> Fail(err)
    /\ UNCHANGED <<ioVars, buf, cap, end, call, from>>

-----------------------------------------------------------------------------
DoFirstRead == \E n \in 0 .. stream.len : FirstRead(n)
DoFillBuf   == \E n \in 0 .. stream.len : FillBuf(n)

Method ==
    \/ Read
    \/ ReadToFunc
    \/ ReadToWildcardMatch
    \/ ReadToWildcardMatchWithTimeInterval
    \/ Close

Step == DoFirstRead \/ TryPreamble \/ DoFillBuf \/ TryRead \/ EnterScan \/ ScanEvent

Next == Method \/ Step

Spec == Init /\ [][Next]_vars

(* A running call is never abandoned, and an io.Reader that is asked again *)
(* and again while it still has bytes delivers some.                       *)
Delivers == \E n \in 1 .. stream.len : FirstRead(n) \/ FillBuf(n)

Fairness == WF_vars(Step) /\ SF_vars(Delivers)

FairSpec == Spec /\ Fairness

(* A user who keeps calling Read, among other methods. *)
ReadingSpec == FairSpec /\ SF_vars(Read)

-----------------------------------------------------------------------------
(* Properties.                                                             *)

(* Every variable has its type and the slice bounds are in range: no slice *)
(* expression of reader.go panics.                                         *)
TypeOK ==
    /\ stream \in Streams
    /\ DesTypeOK(stream)
    /\ delivered \in 0 .. stream.len
    /\ cap \in Nat
    /\ buf \in [0 .. cap - 1 -> Nat]
    /\ end \in 0 .. cap
    /\ start \in 0 .. end
    /\ pc \in PCs
    /\ IsCall(call)
    /\ scanPos \in Nat
    /\ ret.err \in Errors
    /\ ret.ts \in Times
    /\ from \in Nat
    /\ wasted \in BOOLEAN

(* The window [start, end) of reader.buf holds, in order, exactly the      *)
(* bytes the io.Reader delivered and no call has consumed: shifting,       *)
(* doubling and appending in fillBuf lose, repeat and displace nothing.    *)
WindowIsStream ==
    \A k \in 0 .. end - start - 1 : buf[start + k] = Consumed + 1 + k

(* reader.start is always at the boundary of an item, so the next decode   *)
(* never begins inside an event, whatever errors came before.              *)
OnItemBoundary == \E j \in 0 .. Count(stream) : Consumed = EndOf(stream, j)

(* What consumes input: only the end of NewReaderSize and an event that is *)
(* handed to the user or to the f of ReadToFunc.  A read takes exactly the *)
(* next item; a scan takes a run of events and hands out the last of them. *)
(* No call moves backwards, stops inside an item, or jumps over the end.   *)
ConsumesOneRun ==
    \E i, j \in 0 .. Count(stream) :
        /\ i < j
        /\ Consumed = EndOf(stream, i)
        /\ Consumed' = EndOf(stream, j)
        /\ IF call = NewCall
           THEN j = 1
           ELSE /\ mMsg' = j
                /\ \A k \in i + 1 .. j : stream.items[k].kind = "event"
                /\ Scanning \/ j = i + 1

(* Nothing else consumes. *)
EventsInOrder == [][Consumed' # Consumed => ConsumesOneRun]_vars

(* Timestamps of the native object can be trusted unless a scan of         *)
(* four-byte IR decoded events that were then not consumed.                *)
Trusted == stream.enc = "eight" \/ ~wasted

(* The timestamp of an event that is returned is the one the stream        *)
(* carries: the preamble's reference timestamp plus all differences up to  *)
(* that event.                                                             *)
TimestampExact ==
    (pc = "idle" /\ call # NewCall /\ ret.err = Success)
        => ret.ts = stream.items[mMsg].ts

(* That is so whenever timestamps can be trusted. *)
TimestampExactWhenTrusted == Trusted => TimestampExact

(* The items a call has looked at, from the item after the call began. *)
Wanted(j) ==
    LET item == stream.items[j]
    IN  /\ item.kind = "event"
        /\ call.op = "func" => item.ts >= call.since /\ item.msg \in call.msgs
        /\ Scanning => /\ InInterval(item.ts, call.lower, call.upper)
                       /\ AnyMatch(item.msg, call.queries)

Returned == pc = "idle" /\ call # NewCall

(* A call that succeeds returns the first event after the one consumed     *)
(* before it that it was asked for, and a scan the first query that        *)
(* matches it: no wanted event is skipped over a refill of the buffer, a   *)
(* growth or an error of an earlier call.                                  *)
FirstWanted ==
    (Returned /\ ret.err = Success /\ Trusted) =>
        /\ Consumed = EndOf(stream, mMsg)
        /\ Wanted(mMsg)
        /\ \A j \in 1 .. mMsg - 1 : EndOf(stream, j) > from => ~Wanted(j)
        /\ Scanning => ret.index = MatchIndex(stream.items[mMsg].msg, call.queries)

(* The item that justifies an error. *)
Justifies(err, item) ==
    CASE err = EndOfIr       -> item.kind = "eof"
      [] err = CorruptedIr   -> item.kind = "bad"
      [] err = QueryNotFound -> item.kind = "event" /\ item.ts >= call.upper
      [] OTHER               -> FALSE

(* EndOfIr, QueryNotFound and CorruptedIr mean what they say: an item that *)
(* justifies the error lies ahead, and nothing the call wanted was passed  *)
(* on the way to it.  A Read never stops short, a scan consumes nothing.   *)
HonestError ==
    (Returned /\ ret.err \notin {Success, IoError} /\ Trusted /\ cptr) =>
        \E j \in 1 .. Count(stream) :
            /\ EndOf(stream, j) > Consumed
            /\ Justifies(ret.err, stream.items[j])
            /\ \A i \in 1 .. j - 1 : EndOf(stream, i) > from => ~Wanted(i)
            /\ IF Scanning THEN Consumed = from ELSE EndOf(stream, j - 1) = Consumed

(* The buffer doubles only when the next item does not fit half of it: its *)
(* length stays below four times the longest item, or at its initial size. *)
BufferFitsItems ==
    \/ cap <= InitialSize
    \/ \E j \in 1 .. Count(stream) : cap <= 4 * Width(stream, j) - 6

(* Scans included, the buffer is less than four times as long as what the  *)
(* io.Reader has delivered, or at its initial size.                        *)
BufferFitsStream == cap <= InitialSize \/ cap <= 4 * delivered - 2

(* A refill has room for at least one byte: no call asks the io.Reader for *)
(* nothing and waits for it for ever.                                      *)
RefillHasRoom == pc = "fill" => end - start < IF Grows THEN 2 * cap ELSE cap

(* A call asks for more bytes only as long as the item that ends the       *)
(* stream has not been delivered in full: none waits for bytes behind the  *)
(* end of the IR, which a connection kept open may never deliver.          *)
NeverReadsPastEnd ==
    pc = "fill" =>
        \A j \in 1 .. Count(stream) :
            stream.items[j].kind \in {"eof", "bad"} => delivered < EndOf(stream, j)

(* The bytes delivered so far, had they all been kept. *)
Kept == [k \in 0 .. delivered - 1 |-> k + 1]

(* However the bytes came and the buffer was shifted and doubled, it does  *)
(* not show: what is decoded from the window is what would be decoded from *)
(* a buffer that has kept every byte delivered so far.                     *)
BufferTransparent ==
    /\ pc = "deser" => LogEventResult(stream, buf, start, end)
                          = LogEventResult(stream, Kept, Consumed, delivered)
    /\ pc = "scan" => ScanResult(stream, buf, start + scanPos, end, call)
                         = ScanResult(stream, Kept, Consumed + scanPos, delivered, call)

(* A native Deserializer can always be freed by Close: when NewReaderSize   *)
(* returns no Reader on which to call Close, there is none.                *)
NothingLeaks == pc = "failed" => native # "live"

(* Every call returns, whatever the sizes in which the io.Reader delivers. *)
CallReturns == pc \notin {"idle", "failed"} ~> pc \in {"idle", "failed"}

(* A user who keeps reading gets through a complete stream: at some point  *)
(* Read answers EndOfIr, or CorruptedIr where the stream is corrupted, no  *)
(* matter how many reads of the io.Reader failed or came up short.         *)
ReachesEnd ==
    <>(\/ pc = "failed"
       \/ native = "freed"
       \/ pc = "idle" /\ call = ReadCall /\ ret.err \in {EndOfIr, CorruptedIr})
=============================================================================
