---------------------------- MODULE ReviewFilter ----------------------------
(***************************************************************************)
(* The text processing of review.py that decides what the review service   *)
(* sees: split_diff_by_file, extract_file_path and filter_script_changes,  *)
(* and the per-file chunks that _review_chunked sends.                     *)
(*                                                                         *)
(* A diff is the output of `git diff HEAD` taken as the sequence of its    *)
(* lines (str.splitlines(keepends=True)).  Every line of git's output ends *)
(* with a newline, so a string and its line sequence determine each other. *)
(* A line is abstracted to what the functions test: it starts with         *)
(* "diff --git " (kind "git"), it starts with "+++ " and names a path      *)
(* (kind "plus", with the path after "+++ b/" or "+++ "), it is empty      *)
(* (kind "blank", the line "\n"), or it is anything else ("body").         *)
(*                                                                         *)
(* The module generates every diff up to MaxLen lines, one line at a time, *)
(* and checks the functions on each against a reference definition.       *)
(***************************************************************************)
EXTENDS Naturals, Sequences, SequencesExt

CONSTANTS
    Paths,       \* file paths a diff may name
    Reviewable,  \* the paths that end with ".luau" or ".lua"
    NoPath,      \* extract_file_path's "" when no "+++" line is found
    MaxLen       \* bound on the number of lines of a generated diff

ASSUME FilterAssumption ==
    /\ Reviewable \subseteq Paths
    /\ NoPath \notin Paths
    /\ MaxLen \in Nat

GitLine(p)  == [kind |-> "git", path |-> p]
PlusLine(p) == [kind |-> "plus", path |-> p]
Body        == [kind |-> "body", path |-> NoPath]
Blank       == [kind |-> "blank", path |-> NoPath]

\* The lines git's output is made of: it never holds an empty line (a blank
\* context line is " \n"), so Blank is not among them.
GitLines == {GitLine(p) : p \in Paths} \cup {PlusLine(p) : p \in Paths} \cup {Body}

VARIABLE diff

-----------------------------------------------------------------------------
(* The code *)

\* Mutant: the finished chunk is not appended when a new one starts
SplitStepLost(acc, line) ==
    IF line.kind = "git"
    THEN [chunks |-> acc.chunks, current |-> << line >>]
    ELSE [acc EXCEPT !.current = Append(@, line)]

\* split_diff_by_file: a new chunk starts at each "diff --git " line; the
\* lines before the first one form a chunk of their own when there are any.
SplitStep(acc, line) ==
    IF line.kind = "git"
    THEN [chunks |-> IF acc.current # << >> THEN Append(acc.chunks, acc.current)
                     ELSE acc.chunks,
          current |-> << line >>]
    ELSE [acc EXCEPT !.current = Append(@, line)]

split_diff_by_file(d) ==
    LET acc == FoldLeft(SplitStep, [chunks |-> << >>, current |-> << >>], d)
    IN  IF acc.current # << >> THEN Append(acc.chunks, acc.current) ELSE acc.chunks

\* extract_file_path: the path of the first "+++ " line, or "".
extract_file_path(chunk) ==
    LET i == SelectInSeq(chunk, LAMBDA l : l.kind = "plus")
    IN  IF i = 0 THEN NoPath ELSE chunk[i].path

IsScript(chunk) == extract_file_path(chunk) \in Reviewable

\* "\n".join(chunks): each chunk ends with a newline, so the separator is
\* an empty line between two chunks.
JoinLines(chunks) ==
    FlattenSeq([i \in 1..Len(chunks) |->
                   IF i < Len(chunks) THEN chunks[i] \o << Blank >> ELSE chunks[i]])

\* filter_script_changes: keep the chunks whose path is reviewable.
filter_script_changes(d) ==
    JoinLines(SelectSeq(split_diff_by_file(d), IsScript))

\* _review_chunked: the filtered diff is split again and filtered again;
\* each remaining chunk is sent to the service on its own.
ChunkedRequests(d) ==
    SelectSeq(split_diff_by_file(filter_script_changes(d)), IsScript)

-----------------------------------------------------------------------------
(* The reference: spec 4.4 filterReviewable keeps the per-file segments of *)
(* the diff whose path has a reviewable extension, in order.               *)

\* Positions where a segment starts: the first line and every git line
Starts(d) == {i \in 1..Len(d) : i = 1 \/ d[i].kind = "git"}

\* The segment that starts at position i ends before the next start.
SegmentAt(d, i) ==
    LET later == {j \in Starts(d) : j > i}
        stop  == IF later = {} THEN Len(d) + 1
                 ELSE CHOOSE j \in later : \A k \in later : j <= k
    IN  SubSeq(d, i, stop - 1)

\* Its path is the path of its first "+++" line.
SegmentPath(seg) ==
    IF \E k \in 1..Len(seg) : seg[k].kind = "plus"
    THEN seg[CHOOSE k \in 1..Len(seg) : seg[k].kind = "plus"
                                  /\ \A m \in 1..k-1 : seg[m].kind # "plus"].path
    ELSE NoPath

ReviewableSegments(d) ==
    LET keep == {i \in Starts(d) : SegmentPath(SegmentAt(d, i)) \in Reviewable}
    IN  [n \in 1..Cardinality(keep) |->
            SegmentAt(d, CHOOSE i \in keep :
                            Cardinality({j \in keep : j < i}) = n - 1)]

\* The empty line "\n".join puts after the n-th of k kept chunks
JoinedAfter(n, k) == IF n < k THEN << Blank >> ELSE << >>

-----------------------------------------------------------------------------
(* Generating the diffs *)

Init == diff = << >>

\* git writes one more line of output.
NextLine == \E l \in GitLines : Len(diff) < MaxLen /\ diff' = Append(diff, l)

Next == NextLine

Spec == Init /\ [][Next]_diff

-----------------------------------------------------------------------------
(* Properties *)

\* _review_chunked sends the service exactly the reviewable per-file
\* segments of the diff, in order and each in full, and nothing else but
\* the one empty line that the "\n".join of filter_script_changes leaves
\* at the end of every chunk but the last when it re-splits that output.
ChunksAreReviewableSegments ==
    LET sent == ChunkedRequests(diff)
        ref  == ReviewableSegments(diff)
    IN  /\ Len(sent) = Len(ref)
        /\ \A n \in 1..Len(ref) : sent[n] = ref[n] \o JoinedAfter(n, Len(ref))

=============================================================================
