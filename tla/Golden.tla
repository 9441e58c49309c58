------------------------------- MODULE Golden -------------------------------
(***************************************************************************)
(* The golden file, by which the C++ engine is held to the Python          *)
(* reference: tools/generate_golden.py writes it, a developer edits the    *)
(* sources and commits at any moment, CI regenerates it and runs the C++   *)
(* test on it.  What a program writes of an input is a value; a program is *)
(* its table of outputs.                                                   *)
(***************************************************************************)
EXTENDS Naturals, SequencesExt

CONSTANTS
  Worked, Corpus,  \* the inputs of WORKED_CASES, and of the lines of word_corpus.txt
  Hashed,          \* those that start with "#"; word_corpus.txt can hold none
  Text,            \* what a program may write
  Torn,            \* a text cut short
  MaxEdits         \* bound: how often the sources are edited

Cases == Worked \o Corpus
Input == ToSet(Cases)

ASSUME GoldenTypes ==
  /\ Worked \in Seq(ToSet(Worked)) /\ Corpus \in Seq(ToSet(Corpus)) /\ Cases # <<>>
  /\ Torn \notin Text /\ MaxEdits \in Nat
  /\ Hashed \subseteq ToSet(Worked) /\ ToSet(Corpus) \cap Hashed = {}

VARIABLES
  tree,   \* the working tree: python, engine, want (the declared outputs), golden (the file)
  gen,    \* the generator: pc, what it has loaded and checked, lines written, exit status
  ci,     \* the last commit, and whether the cross-validation job is green on it
  edits   \* so far

vars == <<tree, gen, ci, edits>>

-----------------------------------------------------------------------------
(* The file *)

Line(kind, input, text) == [kind |-> kind, input |-> input, text |-> text]
Header == Line("comment", Worked[1], Torn)
File(pairs) == <<Header>> \o [i \in DOMAIN pairs |-> Line("row", pairs[i][1], pairs[i][2])]

\* A line of which only the beginning has reached the disk: without its TAB, or with.
Cuts(line) ==
  IF line.kind = "comment" THEN {} ELSE {[line EXCEPT !.kind = "cut"], [line EXCEPT !.text = Torn]}

\* What may be on the disk when the first n lines have been written to the buffer.
Flushed(file, n) ==
  {SubSeq(file, 1, k) : k \in 0..n}
  \cup UNION {{Append(SubSeq(file, 1, k), c) : c \in Cuts(file[k + 1])} : k \in 0..(n - 1)}

\* load_golden: comments and lines without a TAB are skipped.
load_golden(file) ==
  {line \in ToSet(file) : line.kind = "row" /\ line.input \notin Hashed}

GoldenFileCrossValidation(t) ==
  /\ load_golden(t.golden) # {}
  /\ \A row \in load_golden(t.golden) : t.engine[row.input] = row.text

-----------------------------------------------------------------------------
(* main() of generate_golden.py.  The modules and WORKED_CASES are loaded  *)
(* when it starts, the corpus when it comes to it.                         *)

Pairs(program, inputs) == [i \in DOMAIN inputs |-> <<inputs[i], program[inputs[i]]>>]

Exit(status) ==
  gen' = [gen EXCEPT !.pc = "idle", !.exit = status, !.checked = 0, !.written = 0]

StartMain ==
  /\ gen.pc = "idle"
  /\ gen' = [pc |-> "worked", python |-> tree.python, want |-> tree.want, checked |-> 0,
             written |-> 0, exit |-> "none", before |-> tree.golden]
  /\ UNCHANGED tree

\* The next pair of a loop that ends with case number last.
Check(pc, last) ==
  /\ gen.pc = pc /\ gen.checked < last
  /\ LET input == Cases[gen.checked + 1] IN
       IF gen.python[input] = gen.want[input] THEN gen' = [gen EXCEPT !.checked = @ + 1]
                                              ELSE Exit("mismatch")
  /\ UNCHANGED tree

CheckWorked == Check("worked", Len(Worked))
CheckCorpus == Check("corpus", Len(Cases))

load_corpus_Opens ==
  /\ gen.pc = "worked" /\ gen.checked = Len(Worked)
  /\ gen' = [gen EXCEPT !.pc = "corpus", !.want = tree.want]
  /\ tree' = [tree EXCEPT !.golden = <<>>]

load_corpus ==
  /\ gen.pc = "worked" /\ gen.checked = Len(Worked)
  /\ gen' = [gen EXCEPT !.pc = "corpus", !.want = tree.want]
  /\ UNCHANGED tree

\* open("w") truncates the file.
Open ==
  /\ gen.pc = "corpus" /\ gen.checked = Len(Cases)
  /\ gen' = [gen EXCEPT !.pc = "write"]
  /\ tree' = [tree EXCEPT !.golden = <<>>]

Output == File(Pairs(gen.python, Cases))

\* One more line into the buffer; some of it, and of those before, to the disk.
Write ==
  /\ gen.pc = "write" /\ gen.written < Len(Output)
  /\ gen' = [gen EXCEPT !.written = @ + 1]
  /\ \E file \in Flushed(Output, gen.written + 1) :
       /\ Len(file) >= Len(tree.golden)
       /\ \A i \in DOMAIN tree.golden : tree.golden[i] = Output[i] => file[i] = Output[i]
       /\ tree' = [tree EXCEPT !.golden = file]

Close_Unflushed == gen.pc = "write" /\ gen.written = Len(Output) /\ Exit("success") /\ UNCHANGED tree

Close ==
  /\ gen.pc = "write" /\ gen.written = Len(Output)
  /\ tree' = [tree EXCEPT !.golden = Output]
  /\ Exit("success")

\* Interrupted, or the disk is full: what is not on the disk is lost.
Crash == gen.pc # "idle" /\ Exit("crash") /\ UNCHANGED tree

Generate ==
  StartMain \/ CheckWorked \/ load_corpus \/ CheckCorpus \/ Open \/ Write \/ Close \/ Crash

-----------------------------------------------------------------------------
(* The developer and CI *)

Edit ==
  /\ edits < MaxEdits /\ edits' = edits + 1
  /\ \E part \in {"python", "engine", "want"}, input \in Input, text \in Text :
       /\ tree[part][input] # text
       /\ tree' = [tree EXCEPT ![part][input] = text]
  /\ UNCHANGED <<gen, ci>>

\* The cross-validation job, in a checkout of t that nobody else touches, so in one
\* step: the generator succeeds, git diff finds the golden file as committed, and the
\* C++ test passes on it.
Regenerates(t) == \A input \in Input : t.python[input] = t.want[input]

DiffIsEmpty_Rows(t) == \A i \in DOMAIN t.golden : t.golden[i] \in ToSet(File(Pairs(t.python, Cases)))

DiffIsEmpty(t) == t.golden = File(Pairs(t.python, Cases))

CrossValidation(t) == Regenerates(t) /\ DiffIsEmpty(t) /\ GoldenFileCrossValidation(t)

\* Whatever the working tree holds is committed and pushed, if anything changed.
Push ==
  /\ tree # ci.commit
  /\ ci' = [commit |-> tree, green |-> CrossValidation(tree)]
  /\ UNCHANGED <<tree, gen, edits>>

Init ==
  /\ \E text \in Text :
       LET table == [input \in Input |-> text] IN
         tree = [python |-> table, engine |-> table, want |-> table,
                 golden |-> File(Pairs(table, Cases))]
  /\ gen = [pc |-> "idle", python |-> tree.python, want |-> tree.want, checked |-> 0,
            written |-> 0, exit |-> "none", before |-> tree.golden]
  /\ ci = [commit |-> tree, green |-> CrossValidation(tree)]
  /\ edits = 0

Next == (Generate /\ UNCHANGED <<ci, edits>>) \/ Edit \/ Push

Spec == Init /\ [][Next]_vars

-----------------------------------------------------------------------------
(* Properties *)

\* A green cross-validation job means what README.md takes it for: on every case whose
\* row the C++ test reads, the two programs write what is declared, and the committed
\* golden file holds every case, although it may have been committed while it was being
\* written, after a crash, or before the last edit.
GateIsSound ==
  ci.green =>
    /\ \A input \in Input : ci.commit.python[input] = ci.commit.want[input]
    /\ \A input \in Input \ Hashed : ci.commit.engine[input] = ci.commit.want[input]
    /\ ci.commit.golden = File(Pairs(ci.commit.python, Cases))

\* Beside CI, the C++ test is worth something only after a generator that ran to its
\* end and no edit of the reference since: then, if it passes, the programs agree.
FinishedRunIsTrusted ==
  gen.exit = "success" /\ gen.python = tree.python /\ GoldenFileCrossValidation(tree)
    => \A input \in Input \ Hashed : tree.engine[input] = tree.python[input]

\* Drift is reported before anything is overwritten: a run that finds a mismatch leaves
\* the golden file as it found it.
MismatchKeepsFile == gen.exit = "mismatch" => tree.golden = gen.before
=============================================================================
