------------------------------ MODULE MaxFrames ------------------------------
(***************************************************************************)
(* What the MAX decoder does with the body of one frame: decompress it     *)
(* under a cap, then look for a MessagePack value behind up to four        *)
(* service bytes, walking each candidate before the library may allocate   *)
(* anything for it.  The peer chose the bytes, so every sequence of them   *)
(* is an input.                                                            *)
(*                                                                         *)
(* Data is cut to what the walk tells apart: a byte is one of Bytes, read  *)
(* as a value's first byte, as a length or as filler, wherever it stands.  *)
(***************************************************************************)
EXTENDS Naturals, Sequences, SequencesExt, TLC

CONSTANTS
    MaxInput,       \* bound: bytes of an uncompressed body, and of a literal run
    MaxTokens,      \* bound: tokens of an LZ4 block
    MaxCopies,      \* bound: length of an LZ4 match
    Cap,            \* maxDecompressed
    MaxBody,        \* maxMsgpackBody
    MaxDepth,       \* msgpackMaxDepth
    Offsets,        \* service bytes tried, 0..4 in the code
    None

CodecAssumption ==
    /\ {MaxInput, MaxTokens, MaxCopies, Cap, MaxBody, MaxDepth, Offsets} \subseteq Nat
    /\ MaxDepth > 0 /\ MaxBody <= Cap

VARIABLES
    frame,      \* the compression flag and the bytes
    at,         \* "expand", "try", "walk" or "done"
    src, out,   \* LZ4: tokens left to read, bytes written
    body, off,  \* the decompressed body; the service bytes skipped
    i, stack,   \* msgpackSane: the next byte; values still to read per container
    deep,       \* some candidate failed by its nesting
    result      \* what became of the frame

vars == <<frame, at, src, out, body, off, i, stack, deep, result>>

(* First bytes of a value: nil, a string of one byte, an array of two, a    *)
(* map of one pair, bin8 (a length byte follows), and one never used.       *)
Bytes == {"nil", "str", "arr", "map", "bin", "bad"}
asLength == [nil |-> 0, str |-> 1, arr |-> 2, map |-> 3, bin |-> 4, bad |-> 5]
seqs(S, n) == UNION {[1..k -> S] : k \in 0..n}

Tokens == [lit : seqs({"nil", "arr", "map"}, 2), offset : 0..2, match : 2..MaxCopies]

Init ==
    /\ \E comp \in {"none", "lz4", "zstd"} :
        /\ comp = "none" => src = <<>> /\ out \in seqs(Bytes, MaxInput) \ {<<>>}
        /\ comp = "zstd" => src = <<>> /\ out \in seqs({"nil", "arr"}, MaxBody + 1)
        /\ comp = "lz4" => src \in seqs(Tokens, MaxTokens) /\ out = <<>>
        /\ frame = [comp |-> comp, src |-> src]
    /\ at = "expand"
    /\ body = <<>> /\ off = 0 /\ i = 1 /\ stack = <<1>> /\ deep = FALSE
    /\ result = None

Finish(as, limit) == at' = "done" /\ result' = [as |-> as, limit |-> limit]

-----------------------------------------------------------------------------
(* A match is copied byte by byte, so one that overlaps its own output      *)
(* repeats it.                                                              *)
copyOne(o, start, k) == Append(o, o[start + k])
overlapCopy(o, t) ==
    LET start == Len(o) - t.offset
    IN  FoldLeft(LAMBDA acc, k : copyOne(acc, start, k), o, [k \in 1..t.match |-> k])

capped(o, t) == Len(o) + t.match > Cap

(* lz4BlockDecompress, one token: its literals, then its match.  The last   *)
(* run has no match, and an offset that points nowhere ends the block.      *)
Expand ==
    /\ at = "expand" /\ frame.comp = "lz4" /\ src # <<>>
    /\ LET t == Head(src)
           o == out \o t.lit
           final == Tail(src) = <<>> /\ t.offset = 0
       IN  \/ /\ final \/ t.offset = 0 \/ t.offset > Len(o)
              /\ out' = o /\ src' = <<>>
              /\ UNCHANGED <<at, result>>
           \/ /\ t.offset \in 1..Len(o) /\ ~capped(o, t)
              /\ out' = overlapCopy(o, t) /\ src' = Tail(src)
              /\ UNCHANGED <<at, result>>
           \/ /\ t.offset \in 1..Len(o) /\ capped(o, t)
              /\ out' = o /\ src' = <<>>
              /\ Finish("raw", "size")
    /\ UNCHANGED <<frame, body, off, i, stack, deep>>

(* zstd stops at its memory limit, or fails on what is not a zstd frame.    *)
ZstdFails ==
    /\ at = "expand" /\ frame.comp = "zstd" /\ out = <<>>
    /\ \E limit \in {None, "size"} : Finish("raw", limit)
    /\ UNCHANGED <<frame, src, out, body, off, i, stack, deep>>

(* decompressBody returned; unpackMsgpack refuses a body over its bound.    *)
Expanded ==
    /\ at = "expand" /\ src = <<>>
    /\ body' = out
    /\ IF out = <<>> /\ frame.comp = "lz4" THEN Finish("raw", None)
       ELSE IF Len(out) > MaxBody THEN Finish("raw", "body")
       ELSE at' = "try" /\ UNCHANGED result
    /\ UNCHANGED <<frame, src, out, off, i, stack, deep>>

-----------------------------------------------------------------------------
(* unpackMsgpack: each number of service bytes in turn.                     *)
moreOffsets == off <= Offsets /\ off < Len(body)
Try ==
    /\ at = "try" /\ moreOffsets
    /\ at' = "walk" /\ i' = off + 1 /\ stack' = <<1>>
    /\ UNCHANGED <<frame, src, out, body, off, deep, result>>
GiveUp ==
    /\ at = "try" /\ ~moreOffsets
    /\ Finish("raw", IF deep THEN "depth" ELSE None)
    /\ UNCHANGED <<frame, src, out, body, off, i, stack, deep>>

left == Len(body) - i
Fails(tooDeep) ==
    /\ at' = "try" /\ off' = off + 1 /\ deep' = (deep \/ tooDeep)
    /\ UNCHANGED <<i, stack, result>>

(* The elements a container declares, against the bytes that are left.      *)
fits(count, n) == count <= n

open == stack[Len(stack)]
counts == [nil |-> 0, str |-> 0, arr |-> 2, map |-> 2, bin |-> 0, bad |-> 0]
descend(count) == IF count > 0 THEN Append([stack EXCEPT ![Len(stack)] = @ - 1], count)
                  ELSE [stack EXCEPT ![Len(stack)] = @ - 1]

(* msgpackSane: a value of the innermost container that still waits for one.*)
Walk ==
    /\ at = "walk" /\ stack # <<>> /\ open > 0
    /\ LET c == IF i <= Len(body) THEN body[i] ELSE None
           skip == CASE c = "str" -> 1
                     [] c = "bin" -> IF left > 0 THEN 1 + asLength[body[i + 1]] ELSE 1
                     [] OTHER -> 0
           n == left - skip
       IN  \/ /\ c = None \/ c = "bad" \/ skip > left
              /\ Fails(FALSE)
           \/ /\ c \in Bytes \ {"bad"} /\ skip <= left
              /\ IF counts[c] > 0 /\ ~fits(counts[c], n) THEN Fails(FALSE)
                 ELSE IF counts[c] > 0 /\ Len(stack) >= MaxDepth THEN Fails(TRUE)
                 ELSE /\ i' = i + 1 + skip /\ stack' = descend(counts[c])
                      /\ UNCHANGED <<at, off, deep, result>>
    /\ UNCHANGED <<frame, src, out, body>>

(* A container is full.                                                     *)
Close ==
    /\ at = "walk" /\ stack # <<>> /\ open = 0
    /\ stack' = SubSeq(stack, 1, Len(stack) - 1)
    /\ UNCHANGED <<frame, at, src, out, body, off, i, deep, result>>

(* A value that leaves bytes behind taken for the body.                     *)
anyPrefix(next) == TRUE
wholeBody(next) == next = Len(body) + 1

(* decodeMsgpackAt: only a walked body reaches the library, which panics on *)
(* a map whose key is a container (recovered as a failure).                 *)
keyIsContainer == \E k \in (off + 1)..(Len(body) - 1) : body[k] = "map" /\ body[k + 1] \in {"arr", "map"}
Decode ==
    /\ at = "walk" /\ stack = <<>>
    /\ \/ /\ wholeBody(i)
          /\ Finish("json", None)
          /\ UNCHANGED <<off, i, stack, deep>>
       \/ ~wholeBody(i) /\ Fails(FALSE)
       \/ wholeBody(i) /\ keyIsContainer /\ Fails(FALSE)
    /\ UNCHANGED <<frame, src, out, body>>

Next == Expand \/ ZstdFails \/ Expanded \/ Try \/ GiveUp \/ Walk \/ Close \/ Decode
Spec == Init /\ [][Next]_vars /\ WF_vars(Next)

-----------------------------------------------------------------------------
(* The grammar: where the value that begins at k ends, 0 if there is none.  *)
RECURSIVE valueEnd(_, _, _)
RECURSIVE valuesEnd(_, _, _, _)
valuesEnd(b, k, n, d) ==
    IF n = 0 THEN k ELSE LET e == valueEnd(b, k, d) IN IF e = 0 THEN 0 ELSE valuesEnd(b, e, n - 1, d)
(* d containers may still be opened.                                        *)
valueEnd(b, k, d) ==
    IF k > Len(b) THEN 0
    ELSE LET to(e) == IF e <= Len(b) + 1 THEN e ELSE 0
         IN  CASE b[k] = "nil" -> k + 1
               [] b[k] = "str" -> to(k + 2)
               [] b[k] = "bin" -> IF k = Len(b) THEN 0 ELSE to(k + 2 + asLength[b[k + 1]])
               [] b[k] \in {"arr", "map"} -> IF d = 0 THEN 0 ELSE valuesEnd(b, k + 1, 2, d - 1)
               [] OTHER -> 0
isValue(b, k) == k <= Len(b) /\ valueEnd(b, k, MaxDepth - 1) = Len(b) + 1

(* Types; a frame is never dropped, and one kept raw for a bound says which.*)
TypeOK ==
    /\ at \in {"expand", "try", "walk", "done"}
    /\ result \in [as : {"json", "raw"}, limit : {"size", "body", "depth", None}] \cup {None}
    /\ at = "done" <=> result # None
    /\ at = "walk" => \A k \in DOMAIN stack : stack[k] \in Nat

(* "Stop rather than expand without limit": what is in memory is the cap    *)
(* and the literals of one token at most.                                   *)
OutputBounded == frame.comp = "lz4" => Len(out) <= Cap + 2

(* An overlapping match repeats the last `offset` bytes.                    *)
periodic(o, t) == [k \in 1..(Len(o) + t.match) |->
    IF k <= Len(o) THEN o[k] ELSE o[Len(o) - t.offset + 1 + ((k - Len(o) - 1) % t.offset)]]
MatchesRepeat ==
    [][(at = "expand" /\ src # <<>> /\ src' # <<>>) =>
          out' = periodic(out \o Head(src).lit, Head(src))]_vars

(* A frame becomes JSON only if the rest after the service bytes is exactly *)
(* one value, its containers nested below the bound.                        *)
JsonIsValue == (result # None /\ result.as = "json") => isValue(body, off + 1)

(* No container that was entered declares more elements than the body has   *)
(* bytes: nothing is allocated for elements that cannot be there.           *)
DeclaredFits == at = "walk" => \A k \in DOMAIN stack : stack[k] <= Len(body)

(* A decodable body is not kept raw: with the first number of service bytes *)
(* that leaves one value the frame becomes JSON, or its keys prevented it.  *)
NothingOverlooked ==
    (at = "done" /\ result.as = "raw" /\ result.limit \in {None, "depth"} /\ frame.comp = "none") =>
        \A k \in 0..Offsets : isValue(body, k + 1) =>
            \E j \in (k + 1)..(Len(body) - 1) : body[j] = "map" /\ body[j + 1] \in {"arr", "map"}

(* What becomes of a frame: nothing dropped or overlooked, nothing taken    *)
(* for a value that is none, and never more memory than the bounds allow.   *)
FramesAreJudged == TypeOK /\ OutputBounded /\ JsonIsValue /\ DeclaredFits /\ NothingOverlooked

(* A frame that has been judged: nothing here moves any more.               *)
AtRest ==
    /\ frame = [comp |-> "none", src |-> <<>>]
    /\ at = "done" /\ src = <<>> /\ out = <<"bad">> /\ body = out
    /\ off = 0 /\ i = 1 /\ stack = <<>> /\ deep = FALSE
    /\ result = [as |-> "raw", limit |-> None]
=============================================================================
