------------------------------ MODULE SimdScan ------------------------------
(***************************************************************************)
(* The byte scanners of core/src/simd_scan.rs and how parser_utils.rs and  *)
(* plan_parser.rs use them.  A kernel reads a line in blocks of BLOCK      *)
(* bytes, the last block overlapping the one before; a scanner may answer  *)
(* "unsure", and its caller then asks the regular expression it stands in  *)
(* for.                                                                    *)
(*                                                                         *)
(* Bytes are classes: "d" a digit, "U" an upper case letter, " ", ".",     *)
(* ":", "+" (either sign), "h" a byte of a character beyond ASCII, which   *)
(* the expression may take for a digit or a space.  The words of a cost    *)
(* are one symbol each.                                                    *)
(***************************************************************************)
EXTENDS Integers, Sequences, FiniteSets

CONSTANTS
  BLOCK,        \* bytes a vector holds (16)
  TS_SHAPE,     \* the date and time: "d" and literals (19 bytes)
  MaxFraction,  \* digits of a fraction of a second (6)
  MaxZone,      \* letters of a time zone (5)
  MaxEdits      \* bytes of a line that are not as the server printed them

TS_CORE_LEN == Len(TS_SHAPE)

ASSUME BlockAssumption == BLOCK \in Nat \ {0}
ASSUME ShapeAssumption ==
  /\ TS_SHAPE \in Seq({"d", " ", ":"}) /\ TS_SHAPE[1] = "d"
  /\ BLOCK <= TS_CORE_LEN /\ TS_CORE_LEN <= 2 * BLOCK
  /\ MaxFraction \in Nat /\ MaxZone \in Nat

Match(n) == <<n>>
NoMatch == <<>>
Unsure == <<-1>>

At(text, i) == IF i \in 1 .. Len(text) THEN text[i] ELSE "end"
SetMin(S) == CHOOSE x \in S : \A y \in S : x <= y
SetMax(S) == CHOOSE x \in S : \A y \in S : y <= x

-----------------------------------------------------------------------------
(* The date and time at the start of a line.                               *)

(* A window of BLOCK lanes, from lane start + 1 of the shape.              *)
ts_window_matches(core, start) ==
  \A lane \in 1 .. BLOCK : core[start + lane] = TS_SHAPE[start + lane]

(* Two windows: the first BLOCK bytes and the last.                        *)
WindowsMatch(core) ==
  ts_window_matches(core, 0) /\ ts_window_matches(core, TS_CORE_LEN - BLOCK)

WindowsHigh(core) ==
  \E lane \in 1 .. BLOCK : core[lane] = "h" \/ core[TS_CORE_LEN - BLOCK + lane] = "h"

ts_core_kernel(core) ==
  IF WindowsHigh(core) THEN Unsure
  ELSE IF WindowsMatch(core) THEN Match(TS_CORE_LEN) ELSE NoMatch

timestamp_core_simd(text) ==
  IF Len(text) < TS_CORE_LEN THEN NoMatch ELSE ts_core_kernel(SubSeq(text, 1, TS_CORE_LEN))

timestamp_core_scalar(text) ==
  IF Len(text) < TS_CORE_LEN THEN NoMatch
  ELSE IF \E i \in 1 .. TS_CORE_LEN : text[i] = "h" THEN Unsure
  ELSE IF \A i \in 1 .. TS_CORE_LEN : text[i] = TS_SHAPE[i] THEN Match(TS_CORE_LEN) ELSE NoMatch

(* Bytes of a class from position i on, at most limit.                     *)
RunOf(text, i, class, limit) ==
  SetMax({n \in 0 .. limit : \A k \in 0 .. n - 1 : At(text, i + k) = class})

fraction_always_ascii(text, pos) ==
  LET n == RunOf(text, pos + 2, "d", MaxFraction)
  IN IF At(text, pos + 1) # "." THEN Match(pos)
     ELSE IF n >= 1 THEN Match(pos + 1 + n) ELSE Match(pos)

(* After pos bytes: the fraction's end, or unsure.                         *)
TailFraction(text, pos) ==
  LET n == RunOf(text, pos + 2, "d", MaxFraction)
  IN IF At(text, pos + 1) # "." THEN Match(pos)
     ELSE IF n < MaxFraction /\ At(text, pos + 2 + n) = "h" THEN Unsure
     ELSE IF n >= 1 THEN Match(pos + 1 + n) ELSE Match(pos)

(* The zone: a space and two or more letters, or a sign and two digits     *)
(* with two more, after a colon or not.                                    *)
TailZone(text, pos) ==
  LET letters == RunOf(text, pos + 2, "U", MaxZone)
      d1 == At(text, pos + 3)
      d2 == At(text, pos + 4)
      p == IF At(text, pos + 5) = ":" THEN pos + 6 ELSE pos + 5
      x == At(text, p)
      y == At(text, p + 1)
  IN IF At(text, pos + 1) # " " THEN Match(pos)
     ELSE IF At(text, pos + 2) = "U" THEN Match(IF letters >= 2 THEN pos + 1 + letters ELSE pos)
     ELSE IF At(text, pos + 2) # "+" \/ d1 = "end" \/ d2 = "end" THEN Match(pos)
     ELSE IF "h" \in {d1, d2} THEN Unsure
     ELSE IF {d1, d2} # {"d"} THEN Match(pos)
     ELSE IF x # "end" /\ y # "end" /\ "h" \in {x, y} THEN Unsure
     ELSE IF {x, y} = {"d"} THEN Match(p + 1) ELSE Match(pos + 4)

timestamp_tail(text) ==
  LET fraction == TailFraction(text, TS_CORE_LEN)
  IN IF fraction = Unsure THEN Unsure ELSE TailZone(text, fraction[1])

timestamp_prefix_len_simd(text) ==
  IF timestamp_core_simd(text) = Match(TS_CORE_LEN) THEN timestamp_tail(text)
  ELSE timestamp_core_simd(text)

-----------------------------------------------------------------------------
(* LOG_LINE_PATTERN, given which bytes beyond ASCII are digits (high):     *)
(* the length of the longest fraction and zone it takes.                   *)
Read(text, high) == [i \in 1 .. Len(text) |-> IF i \in high THEN "d" ELSE text[i]]

FractionEnds(text) ==
  {TS_CORE_LEN} \cup {e \in TS_CORE_LEN + 2 .. Len(text) :
     /\ e - TS_CORE_LEN - 1 <= MaxFraction
     /\ text[TS_CORE_LEN + 1] = "."
     /\ \A i \in TS_CORE_LEN + 2 .. e : text[i] = "d"}

ZoneEnds(text, pos) ==
  {pos} \cup {e \in pos + 3 .. Len(text) :
     /\ text[pos + 1] = " "
     /\ \/ e - pos - 1 \in 2 .. MaxZone /\ \A i \in pos + 2 .. e : text[i] = "U"
        \/ /\ text[pos + 2] = "+"
           /\ \/ e = pos + 4 /\ text[pos + 3] = "d" /\ text[pos + 4] = "d"
              \/ e = pos + 6 /\ \A i \in pos + 3 .. e : text[i] = "d"
              \/ e = pos + 7 /\ text[pos + 5] = ":"
                 /\ \A i \in {pos + 3, pos + 4, pos + 6, pos + 7} : text[i] = "d"}

RegexTail(text) == SetMax(ZoneEnds(text, SetMax(FractionEnds(text))))

LOG_LINE_PATTERN(text) ==
  IF /\ Len(text) >= TS_CORE_LEN
     /\ \A i \in 1 .. TS_CORE_LEN : text[i] = TS_SHAPE[i]
  THEN Match(RegexTail(text)) ELSE NoMatch

(* split_log_line: the length of the time stamp, or none; a first byte     *)
(* that is ASCII and no digit is no log line.                              *)
split_log_line(text, high) ==
  IF text = <<>> \/ (text[1] # "h" /\ text[1] # "d") THEN NoMatch
  ELSE IF timestamp_prefix_len_simd(text) = Unsure THEN LOG_LINE_PATTERN(Read(text, high))
  ELSE timestamp_prefix_len_simd(text)

-----------------------------------------------------------------------------
(* Leading white space.                                                    *)

(* The first byte that is no white space ends it, if it is ASCII.          *)
FirstOther(text, end) == IF text[end] = "h" THEN Unsure ELSE Match(end - 1)

leading_whitespace_scalar(text) ==
  LET others == {i \in 1 .. Len(text) : text[i] # " "}
  IN IF others = {} THEN Match(Len(text))
     ELSE FirstOther(text, SetMin(others))

(* Blocks from offset on; a block shorter than BLOCK is replaced by the    *)
(* last BLOCK bytes of the line, and a line with none left is read to its  *)
(* end by the scalar loop.                                                 *)
leading_ws_kernel(text) ==
  LET n == Len(text)
      block[offset \in 0 .. n] ==
        IF offset + BLOCK > n
        THEN LET rest == leading_whitespace_scalar(SubSeq(text, offset + 1, n))
             IN IF rest = Unsure THEN Unsure ELSE Match(offset + rest[1])
        ELSE LET others == {lane \in 1 .. BLOCK : text[offset + lane] # " "}
                 next == offset + BLOCK
             IN IF others # {}
                THEN FirstOther(text, offset + SetMin(others))
                ELSE IF next < n /\ next + BLOCK > n
                THEN block[n - BLOCK] ELSE block[next]
  IN block[0]

get_indent_level(text, high) ==
  LET v == leading_ws_kernel(text)
      spaced == [i \in 1 .. Len(text) |-> IF i \in high THEN " " ELSE text[i]]
  IN IF v # Unsure THEN v[1]
     ELSE SetMin({i \in 1 .. Len(text) : spaced[i] # " "} \cup {Len(text) + 1}) - 1

-----------------------------------------------------------------------------
(* A literal in a line: <<>> for none, else the bytes before it.           *)

Occurs(text, needle, at) ==
  at + Len(needle) <= Len(text) /\ \A k \in 1 .. Len(needle) : text[at + k] = needle[k]

find_literal_scalar(text, needle) ==
  LET found == {at \in 0 .. Len(text) : Occurs(text, needle, at)}
  IN IF found = {} THEN <<>> ELSE <<SetMin(found)>>

(* In a block, candidates are lanes where the first and the last byte of   *)
(* the needle match.                                                       *)
find_literal_kernel(text, needle) ==
  LET starts == Len(text) - Len(needle) + 1
      block[offset \in 0 .. Len(text)] ==
        IF offset + BLOCK > starts
        THEN LET rest == find_literal_scalar(SubSeq(text, offset + 1, Len(text)), needle)
             IN IF rest = <<>> THEN <<>> ELSE <<offset + rest[1]>>
        ELSE LET candidates == {at \in offset .. offset + BLOCK - 1 :
                                  /\ text[at + 1] = needle[1]
                                  /\ text[at + Len(needle)] = needle[Len(needle)]}
                 found == {at \in candidates : Occurs(text, needle, at)}
             IN IF found # {} THEN <<SetMin(found)>> ELSE block[offset + BLOCK]
  IN block[0]

find_literal_simd(text, needle) ==
  IF needle = <<>> \/ Len(text) < Len(needle) THEN <<>> ELSE find_literal_kernel(text, needle)

-----------------------------------------------------------------------------
(* The cost of a plan node, as the bounds of its four numbers.             *)

RunEnd(text, i, classes) ==
  SetMax({e \in i - 1 .. Len(text) : \A k \in i .. e : text[k] \in classes})

(* A floating point number has a digit and at most one point.              *)
IsFloat(text, i, e) ==
  /\ \E k \in i .. e : text[k] = "d"
  /\ \A k, l \in i .. e : text[k] = "." /\ text[l] = "." => k = l

(* White space, a label and digits from i on: the end of the digits or <<>>.*)
scan_labelled_int(text, i, label) ==
  LET ws == RunEnd(text, i, {" "})
      digits == RunEnd(text, ws + 2, {"d"})
  IN IF ws < i \/ At(text, ws + 1) # label \/ digits < ws + 2 THEN <<>> ELSE <<digits>>

RowsAndWidth(text, i) ==
  LET rows == scan_labelled_int(text, i, "rows=")
      width == IF rows = <<>> THEN <<>> ELSE scan_labelled_int(text, rows[1] + 1, "width=")
  IN IF width = <<>> THEN <<>> ELSE IF At(text, width[1] + 1) # ")" THEN <<>> ELSE <<rows[1], width[1]>>

(* The first ".." ends the minimum; a third point, or a second ".." later, *)
(* is left to the expression.                                              *)
parse_cost_tuple(text) ==
  LET found == find_literal_simd(text, <<"(cost=">>)
      start == found[1] + 2
      i == SetMin({k \in start .. Len(text) + 1 :
                     At(text, k) \notin {"d", "."} \/ (At(text, k) = "." /\ At(text, k + 1) = ".")})
      j == RunEnd(text, i + 2, {"d", "."})
      tail == RowsAndWidth(text, j + 1)
  IN IF found = <<>> THEN <<>>
     ELSE IF At(text, i) # "." \/ At(text, i + 1) # "." \/ i = start THEN <<>>
     ELSE IF At(text, i + 2) = "." THEN <<>>
     ELSE IF ~IsFloat(text, start, i - 1) \/ j < i + 2 THEN <<>>
     ELSE IF ~IsFloat(text, i + 2, j) \/ tail = <<>> THEN <<>>
     ELSE <<[min |-> i - 1, max |-> j, rows |-> tail[1], width |-> tail[2]]>>

(* COST_REGEX: the leftmost "(cost=" that matches, the longest minimum.    *)
MinimumEnds(text, s) ==
  {i \in s .. Len(text) - 3 :
     /\ \A k \in s .. i : text[k] \in {"d", "."}
     /\ text[i + 1] = "." /\ text[i + 2] = "." /\ text[i + 3] \in {"d", "."}
     /\ RowsAndWidth(text, RunEnd(text, i + 3, {"d", "."}) + 1) # <<>>}

COST_REGEX(text) ==
  LET starts == {s \in 2 .. Len(text) : text[s - 1] = "(cost=" /\ MinimumEnds(text, s) # {}}
      s == SetMin(starts)
      i == SetMax(MinimumEnds(text, s))
      j == RunEnd(text, i + 3, {"d", "."})
      tail == RowsAndWidth(text, j + 1)
  IN IF starts = {} THEN <<>>
     ELSE IF ~IsFloat(text, s, i) \/ ~IsFloat(text, i + 3, j) THEN <<>>
     ELSE <<[min |-> i, max |-> j, rows |-> tail[1], width |-> tail[2]]>>

extract_cost(text) ==
  IF parse_cost_tuple(text) # <<>> THEN parse_cost_tuple(text) ELSE COST_REGEX(text)

-----------------------------------------------------------------------------
(* The lines: what the server prints, cut short or with a byte damaged.    *)
VARIABLES line, edits

scanVars == <<line, edits>>

Bytes == {"d", "U", " ", ".", ":", "+", "h"}

Repeat(byte, n) == [i \in 1 .. n |-> byte]

Fractions == {<<>>} \cup {<<".">> \o Repeat("d", n) : n \in 1 .. MaxFraction}

Zones == {<<" ">> \o Repeat("U", n) : n \in 2 .. MaxZone}
           \cup {<<" ", "+", "d", "d">>, <<" ", "+", "d", "d", "d", "d">>,
                 <<" ", "+", "d", "d", ":", "d", "d">>}

Stamped == UNION {{TS_SHAPE \o f \o z \o <<" ">> : f \in Fractions} : z \in Zones}

Indented == {Repeat(" ", n) \o <<"U">> : n \in 0 .. 2 * BLOCK + 1}

Decimals == {<<>>, <<".", "d">>}

Costed == UNION {{<<"(cost=", "d">> \o f \o <<".", ".", "d">> \o g
                    \o <<" ", "rows=", "d", " ", "width=", "d", ")">> :
                    f \in Decimals} : g \in Decimals}

ScanInit == line \in Stamped \cup Indented \cup Costed /\ edits = 0

damage(i, byte) ==
  /\ edits < MaxEdits
  /\ line[i] # byte
  /\ line' = [line EXCEPT ![i] = byte]
  /\ edits' = edits + 1

(* A line cut by the size limit, or still being written.                   *)
cut(i) ==
  /\ edits < MaxEdits
  /\ line' = SubSeq(line, 1, i - 1)
  /\ edits' = edits + 1

ScanNext == \E i \in 1 .. Len(line) : cut(i) \/ \E byte \in Bytes : damage(i, byte)

ScanSpec == ScanInit /\ [][ScanNext]_scanVars

-----------------------------------------------------------------------------
HighBytes == {i \in 1 .. Len(line) : line[i] = "h"}

(* A line starts an entry, and its time stamp ends, where LOG_LINE_PATTERN *)
(* says, whichever of the bytes beyond ASCII the expression takes for      *)
(* digits: the vector scan never answers for it and differs.               *)
TimestampAsByRegex ==
  \A high \in SUBSET HighBytes : split_log_line(line, high) = LOG_LINE_PATTERN(Read(line, high))

(* The block kernels, whose last block overlaps the one before, find the   *)
(* indentation and the first place of a literal that a byte-by-byte scan   *)
(* finds.                                                                  *)
KernelsAgree ==
  /\ \A high \in SUBSET HighBytes :
       get_indent_level(line, high)
         = Cardinality({i \in 1 .. Len(line) : \A k \in 1 .. i : line[k] = " " \/ k \in high})
  /\ \A needle \in {<<"d">>, <<" ", "U">>, <<"d", ".", "d">>} :
       find_literal_simd(line, needle) = find_literal_scalar(line, needle)

(* The cost of a node is what COST_REGEX reads, although the scan answers  *)
(* first: it gives up on every line where the two would differ.            *)
CostAsByRegex == extract_cost(line) = COST_REGEX(line)

(* The vector scanners are an optimisation only: of no line do they tell   *)
(* the parser anything but what the expressions and the byte-by-byte scans *)
(* they replace would have told it.                                        *)
ScannersAgree == TimestampAsByRegex /\ KernelsAgree /\ CostAsByRegex
=============================================================================
