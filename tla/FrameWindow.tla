---------------------------- MODULE FrameWindow ----------------------------
(* compress/zstd_compress.c: the window, the dictionary and the tables of a   *)
(* context over many calls of ZSTD_compressContinue() and several frames.     *)
(* Input arrives anywhere in memory, over older input too; the indexes are    *)
(* reduced before they overflow; a dictionary is loaded or attached and       *)
(* dropped again.                                                            *)
(*                                                                           *)
(* win is ms->window.  ms: loadedDictEnd, dms (bytes of the attached          *)
(* dictionary, 0 without one), force (forceNonContiguous), next               *)
(* (nextToUpdate), table (the chain table: index i is in slot i mod Cycle).   *)
(* mem[a] says which byte is at address a: bytes are numbered in the order    *)
(* in which they were fed, fed is the last one.  An entry of the table has,   *)
(* beside its index i, the byte it was made for.  frame: the first byte a     *)
(* match of this frame may refer to; dictByte: the last one of the loaded     *)
(* dictionary.  call: the frame chunk in progress, ip its next block.         *)
EXTENDS ZstdWindow, FiniteSets

CONSTANTS
    Cycle,            \* entries of the chain table
    MaxDist,          \* the window size, 1 << windowLog
    BlockMax,         \* blockSizeMax
    Margin,           \* ZSTD_INDEXOVERFLOW_MARGIN
    Input,            \* addresses the caller may read input into
    Dict,             \* address of a dictionary
    DictSizes, Sizes, \* sizes of dictionaries and inputs
    ZSTD_CHUNKSIZE_MAX, \* a dictionary longer than this needs an empty window
    MaxIndexed,       \* bytes of a dictionary the tables have room for
    MaxBytes          \* bound on the bytes fed

ASSUME FrameWindowAssumption ==
    /\ {Cycle, MaxDist, BlockMax, MaxIndexed} \subseteq Nat \ {0} /\ Margin \in Nat /\ MaxBytes \in Nat
    /\ ZSTD_CHUNKSIZE_MAX \in Nat
    /\ Input \subseteq Int /\ Dict \in Int /\ Sizes \cup DictSizes \subseteq Nat

\* What the limits of zstd guarantee: window and table have sizes 2^windowLog and
\* 2^cycleLog, so the larger is a multiple of the table's; below ZSTD_CURRENT_MAX there is
\* room for window, table and one block; a dictionary is cut to maxDictSize, and one that
\* can make the indexes overflow leaves the same room.
ASSUME LimitsAssumption ==
    LET room == ZSTD_CURRENT_MAX - MaxOf(MaxDist, Cycle) - MaxOf(Cycle, ZSTD_WINDOW_START_INDEX)
    IN /\ HASH_READ_SIZE > 0
       /\ MaxOf(MaxDist, Cycle) % Cycle = 0
       /\ BlockMax < room
       /\ \A size \in DictSizes : /\ size <= ZSTD_CURRENT_MAX - ZSTD_WINDOW_START_INDEX
                                  /\ size > ZSTD_CHUNKSIZE_MAX \/ size < room

VARIABLES win, ms, mem, fed, frame, dictByte, call

vars == << win, ms, mem, fed, frame, dictByte, call >>

NoEntry == [i |-> 0, byte |-> 0]
Idle == [pc |-> "idle", ip |-> 0, left |-> 0, size |-> 0, safe |-> TRUE]

Memory == Input \cup UNION {Dict .. Dict + size - 1 : size \in DictSizes}

\* Memory with the next bytes at src.
Filled(src, size) == [a \in Memory |-> IF a \in src .. src + size - 1 THEN fed + 1 + a - src ELSE mem[a]]

Init ==
    /\ win = ZSTD_window_init
    /\ ms = [loadedDictEnd |-> 0, dms |-> 0, force |-> FALSE, next |-> ZSTD_WINDOW_START_INDEX,
             table |-> [s \in 0 .. Cycle - 1 |-> NoEntry]]
    /\ mem = [a \in Memory |-> 0]
    /\ fed = 0 /\ frame = 1 /\ dictByte = 0
    /\ call = Idle

(***************************************************************************)
(* A new frame: the indexes go on, or start again with cleared tables.     *)
(***************************************************************************)
ZSTD_indexTooCloseToMax == EndIndex(win) > ZSTD_CURRENT_MAX - Margin

ZSTD_dictTooBig(loadedDictSize) == loadedDictSize > ZSTD_CHUNKSIZE_MAX

ZSTD_invalidateMatchState(w, t) ==
    [ms EXCEPT !.loadedDictEnd = 0, !.dms = 0, !.next = w.dictLimit, !.table = t]

\* Mutant: the indexes start again, the tables are kept.
KeepsTables(loadedDictSize) ==
    LET reset == ZSTD_indexTooCloseToMax \/ ZSTD_dictTooBig(loadedDictSize)
        w == IF reset THEN ZSTD_window_init ELSE ZSTD_window_clear(win)
    IN [win |-> w, ms |-> ZSTD_invalidateMatchState(w, ms.table)]

ZSTD_resetCCtx_internal(loadedDictSize) ==
    LET reset == ZSTD_indexTooCloseToMax \/ ZSTD_dictTooBig(loadedDictSize)
        w == IF reset THEN ZSTD_window_init ELSE ZSTD_window_clear(win)
        t == IF reset THEN [s \in 0 .. Cycle - 1 |-> NoEntry] ELSE ms.table
    IN [win |-> w, ms |-> ZSTD_invalidateMatchState(w, t)]

NewFrame ==
    LET r == ZSTD_resetCCtx_internal(0)
    IN /\ call.pc = "idle" /\ fed < MaxBytes
       /\ win' = r.win /\ ms' = r.ms /\ frame' = fed + 1 /\ dictByte' = 0
       /\ UNCHANGED << mem, fed, call >>

\* The dictionary keeps tables of its own; the indexes of this context start above its end.
ZSTD_resetCCtx_byAttachingCDict(size) ==
    LET r == ZSTD_resetCCtx_internal(0)
        cdictEnd == ZSTD_WINDOW_START_INDEX + size
        w == IF r.win.dictLimit < cdictEnd
             THEN ZSTD_window_clear([r.win EXCEPT !.nextSrc = r.win.base + cdictEnd]) ELSE r.win
    IN /\ call.pc = "idle" /\ fed < MaxBytes /\ size > 0
       /\ win' = w /\ ms' = [r.ms EXCEPT !.dms = size, !.loadedDictEnd = w.dictLimit]
       /\ frame' = fed + 1 /\ dictByte' = 0 /\ UNCHANGED << mem, fed, call >>

(***************************************************************************)
(* Indexes that get too large.                                             *)
(***************************************************************************)
ZSTD_reduceIndex(t, c) == [k \in DOMAIN t |-> [t[k] EXCEPT !.i = ZSTD_reduceTable(t[k].i, c)]]

\* w, s: window and match state before a block from ip to end.
ZSTD_overflowCorrectIfNeeded(w, s, ip, end) ==
    LET curr == Index(w, ip)
        c == Correction(curr, Cycle, MaxDist)
    IN IF ~ZSTD_window_needOverflowCorrection(Index(w, end)) THEN [w |-> w, s |-> s, safe |-> TRUE]
       ELSE [w |-> ZSTD_window_correctOverflow(w, c),
             s |-> [s EXCEPT !.loadedDictEnd = 0, !.dms = 0, !.next = IF @ < c THEN 0 ELSE @ - c,
                             !.table = ZSTD_reduceIndex(@, c)],
             safe |-> CorrectionIsSafe(w, curr, Cycle, MaxDist)]

\* The match finder enters the positions from s.next to end; a slot keeps the last of
\* those that fall into it.
Entered(w, s, end, memory) ==
    LET last == Index(w, end) - HASH_READ_SIZE
        Newest(k) == last - ((last - k) % Cycle)
    IN [s EXCEPT !.table = [k \in DOMAIN @ |-> IF Newest(k) < s.next THEN @[k]
                                               ELSE [i |-> Newest(k), byte |-> memory[w.base + Newest(k)]]],
                 !.next = MaxOf(@, last + 1)]

(***************************************************************************)
(* Loading a dictionary into the context's own window; only its end may    *)
(* fit in the tables.                                                      *)
(***************************************************************************)
ZSTD_loadDictionaryContent(size, deterministicRefPrefix, forceWindow) ==
    LET r == ZSTD_resetCCtx_internal(size)
        w == ZSTD_window_update(r.win, Dict, size, FALSE)
        end == Dict + size
        ip == MaxOf(Dict, end - MaxIndexed)
        s == [r.ms EXCEPT !.next = Index(w, ip), !.loadedDictEnd = IF forceWindow THEN 0 ELSE Index(w, end),
                          !.force = deterministicRefPrefix]
        o == ZSTD_overflowCorrectIfNeeded(w, s, ip, end)
    IN /\ call.pc = "idle" /\ size > 0 /\ fed + size <= MaxBytes
       /\ mem' = Filled(Dict, size)
       /\ fed' = fed + size /\ frame' = fed + 1 /\ dictByte' = fed + size
       /\ IF end - ip <= HASH_READ_SIZE THEN win' = w /\ ms' = s /\ UNCHANGED call
          ELSE /\ win' = o.w /\ call' = [call EXCEPT !.safe = o.safe]
               /\ ms' = [Entered(o.w, o.s, end, mem') EXCEPT !.next = Index(o.w, end)]

(***************************************************************************)
(* Input, and its blocks.                                                  *)
(***************************************************************************)
\* The caller has put the input at src and passes it on.
ZSTD_compressContinue_internal(src, size) ==
    LET w == ZSTD_window_update(win, src, size, ms.force)
    IN /\ call.pc = "idle" /\ size > 0 /\ fed + size <= MaxBytes
       /\ src .. src + size - 1 \subseteq Input
       /\ mem' = Filled(src, size)
       /\ fed' = fed + size
       /\ win' = w
       /\ ms' = IF Contiguous(win, src, size, ms.force) THEN ms
                ELSE [ms EXCEPT !.force = FALSE, !.next = w.dictLimit]
       /\ call' = [call EXCEPT !.pc = "chunk", !.ip = src, !.left = size, !.size = 0]
       /\ UNCHANGED << frame, dictByte >>

\* One turn of the loop of ZSTD_compress_frameChunk(), up to the match finder.
ZSTD_compress_frameChunk(size) ==
    LET end == call.ip + size
        o == ZSTD_overflowCorrectIfNeeded(win, ms, call.ip, end)
        valid == ZSTD_checkDictValidity(o.w, Index(o.w, end), MaxDist, o.s.loadedDictEnd)
        dict == IF valid THEN o.s.loadedDictEnd ELSE 0
        w == ZSTD_window_enforceMaxDist(o.w, Index(o.w, call.ip), MaxDist, dict)
        dropped == ~valid \/ OutOfReach(Index(o.w, call.ip), MaxDist, dict)
    IN /\ call.pc = "chunk" /\ call.left > 0 /\ size \in 1 .. BlockMax /\ size <= call.left
       /\ win' = w
       /\ ms' = [o.s EXCEPT !.loadedDictEnd = IF dropped THEN 0 ELSE @, !.dms = IF dropped THEN 0 ELSE @,
                            !.next = MaxOf(@, w.lowLimit)]
       /\ call' = [call EXCEPT !.pc = "block", !.size = size, !.safe = o.safe]
       /\ UNCHANGED << mem, fed, frame, dictByte >>

\* The match finder: it enters the positions of the block, or leaves them out.
Compress ==
    /\ call.pc = "block"
    /\ \/ UNCHANGED ms
       \/ ms' = Entered(win, ms, call.ip + call.size, mem)
    /\ call' = [call EXCEPT !.pc = IF call.left = call.size THEN "idle" ELSE "chunk",
                            !.ip = @ + call.size, !.left = @ - call.size]
    /\ UNCHANGED << win, mem, fed, frame, dictByte >>

Next ==
    \/ NewFrame
    \/ \E size \in DictSizes : ZSTD_resetCCtx_byAttachingCDict(size)
    \/ \E size \in DictSizes, refPrefix, forceWindow \in BOOLEAN :
          ZSTD_loadDictionaryContent(size, refPrefix, forceWindow)
    \/ \E src \in Input, size \in Sizes : ZSTD_compressContinue_internal(src, size)
    \/ \E size \in 1 .. BlockMax : ZSTD_compress_frameChunk(size)
    \/ Compress

Spec == Init /\ [][Next]_vars

-----------------------------------------------------------------------------
\* The byte that index i should name: the indexes run with the bytes fed.
ByteOf(i) == fed + 1 - (EndIndex(win) - i)

\* Every index of the window names, through base or dictBase, the byte it was given for,
\* whatever the caller has overwritten since (ZSTD_window_update() discards it).
WindowIsTheHistory ==
    \A i \in win.lowLimit .. EndIndex(win) - 1 : mem[Addr(win, i)] = ByteOf(i)

\* An index left in the chain table, by this frame or an older one and however often the
\* indexes were reduced, is below the window or means the byte it was stored for.
TableEntriesAreRight ==
    \A s \in DOMAIN ms.table : ms.table[s].i >= win.lowLimit => ms.table[s].byte = ByteOf(ms.table[s].i)

\* Reducing the indexes leaves every entry in its slot: chains and trees are walked by index
\* modulo the table's size (assertion in ZSTD_window_correctOverflow()).
SlotsKeepTheirCycle ==
    /\ \A s \in DOMAIN ms.table : ms.table[s].i # 0 => ms.table[s].i % Cycle = s
    /\ call.safe

\* In a block no index a match finder may use is out of the decoder's reach: it is of this
\* frame, at most a window away, or in a dictionary whose end is in the window of the block's end.
DecoderReaches ==
    call.pc = "block" =>
        LET start == Index(win, call.ip)
            end == start + call.size
            Lowest(curr) == IF ms.loadedDictEnd = 0 THEN MaxOf(win.lowLimit, curr - MaxDist) ELSE win.lowLimit
        IN /\ \A curr \in start .. end - 1 : curr > Lowest(curr) =>
                /\ ByteOf(Lowest(curr)) >= frame
                /\ \/ curr - Lowest(curr) <= MaxDist
                   \/ dictByte > 0 /\ ByteOf(end) - 1 - dictByte <= MaxDist
           /\ ms.dms > 0 => /\ win.dictLimit >= ZSTD_WINDOW_START_INDEX + ms.dms
                            /\ ByteOf(win.dictLimit) = frame /\ end - win.dictLimit <= MaxDist
=============================================================================
