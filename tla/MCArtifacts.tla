---------------------------- MODULE MCArtifacts ----------------------------
(***************************************************************************)
(* Artifacts for TLC: two jobs of a matrix whose suffixes are the same,    *)
(* with all pairs of calls.                                                *)
(***************************************************************************)
EXTENDS Artifacts, Matrix

CONSTANTS j1, j2

Text(t) == [kind |-> "text", of |-> t]

\* Two values that differ in a capital.
MatrixOf == (j1 :> << <<<<"b">>, Text(<<"A", "1">>)>> >>) @@ (j2 :> << <<<<"b">>, Text(<<"B", "1">>)>> >>)

MCJob == {j1, j2}
MCDefaultName == [j \in MCJob |-> <<"a">> \o matrixSuffix(MatrixOf[j])]

Low == <<"b">>
High == <<"B">>
All == <<"*">>

MCName == {Low, High, Malformed} \cup {MCDefaultName[j] : j \in MCJob}
MCPattern == MCName \cup {All}

\* nameMatches
MCSelects ==
  [p \in MCPattern |->
     IF p = Malformed THEN {} ELSE {n \in MCName : p = All \/ (n # Malformed /\ ToLower(n) = ToLower(p))}]

MCFile == {"p", "n", "h", "d", "o", "s"}
MCKind == [f \in MCFile |-> CASE f = "p" -> "plain" [] f = "n" -> "nested" [] f = "h" -> "huge"
                              [] f = "d" -> "directory" [] f = "s" -> "sibling" [] OTHER -> "outside"]

MCEarlier ==
  << [run |-> 1, name |-> Low, files |-> {"p", "n"}, live |-> TRUE],
     [run |-> 2, name |-> Low, files |-> {"p", "h", "d", "o", "s"}, live |-> TRUE],
     [run |-> 2, name |-> High, files |-> {"p"}, live |-> TRUE] >>

UploadOf(name, overwrite) ==
  [op |-> "upload", name |-> name, overwrite |-> overwrite, dir |-> {"p", "n"}, files |-> {},
   glob |-> None, runID |-> 2]

MCUploads ==
  {UploadOf(n, o) : n \in {None, Low, High}, o \in BOOLEAN} \cup
  {[UploadOf(Low, TRUE) EXCEPT !.runID = 0], [UploadOf(Low, TRUE) EXCEPT !.glob = {"h"}],
   [UploadOf(Low, TRUE) EXCEPT !.files = {"p", "h"}], [UploadOf(None, FALSE) EXCEPT !.glob = {"p"}],
   [UploadOf(Low, FALSE) EXCEPT !.glob = Malformed], UploadOf(Malformed, TRUE)}

MCDownloads ==
  {[op |-> "download", name |-> n, run |-> r, target |-> t, dirs |-> d] :
     n \in {Low, All, Malformed}, r \in {2, None}, t \in BOOLEAN, d \in {{}, {"nested", "sibling"}}}

MCCalls == MCUploads \cup
  {c \in MCDownloads : c.target /\ c.name # Malformed} \cup
  {c \in MCDownloads : c.dirs = {} /\ (c.name = Low \/ c.target)}
=============================================================================
