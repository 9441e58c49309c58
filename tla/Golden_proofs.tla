---------------------------- MODULE Golden_proofs ----------------------------
(***************************************************************************)
(* What a green cross-validation job, a finished generator and a reported  *)
(* mismatch mean, for any cases, any outputs and any number of edits.      *)
(***************************************************************************)
EXTENDS Golden, SequenceTheorems, TLAPS

-----------------------------------------------------------------------------
(* The inductive invariant *)

ProgramTable == [Input -> Text]

TreeTypes(t) ==
  /\ t = [python |-> t.python, engine |-> t.engine, want |-> t.want, golden |-> t.golden]
  /\ {t.python, t.engine, t.want} \subseteq ProgramTable

\* A finished generator left the file whole, one that is still checking has not touched
\* it, and no exit status outlives the start of the next run.
GeneratorInv ==
  /\ gen = [pc |-> gen.pc, python |-> gen.python, want |-> gen.want, checked |-> gen.checked,
            written |-> gen.written, exit |-> gen.exit, before |-> gen.before]
  /\ gen.pc # "idle" => gen.exit = "none"
  /\ gen.pc \in {"worked", "corpus"} => tree.golden = gen.before
  /\ gen.exit = "success" => tree.golden = File(Pairs(gen.python, Cases))
  /\ MismatchKeepsFile

\* The job was green for no other reason than that its three commands succeeded.
JobInv == ci.green => CrossValidation(ci.commit)

GoldenInv == TreeTypes(tree) /\ TreeTypes(ci.commit) /\ GeneratorInv /\ JobInv

-----------------------------------------------------------------------------
(* The rows of a golden file *)

\* A file written in full has a row for every case, with what the program writes of it.
LEMMA EveryCaseHasRow ==
  ASSUME NEW program, NEW input \in Input \ Hashed
  PROVE  Line("row", input, program[input]) \in load_golden(File(Pairs(program, Cases)))
<1> DEFINE pairs == Pairs(program, Cases)
           rows == [i \in DOMAIN pairs |-> Line("row", pairs[i][1], pairs[i][2])]
           lines == {rows[i] : i \in DOMAIN rows} \cup {Header}
<1>1. Cases \in Seq(Input)
  <2>1. Worked \in Seq(Input) /\ Corpus \in Seq(Input)
    <3> DEFINE W == ToSet(Worked)  C == ToSet(Corpus)
    <3>1. Worked \in Seq(W) /\ Corpus \in Seq(C)
      BY GoldenTypes
    <3>2. ToSet(Worked \o Corpus) = {(Worked \o Corpus)[i] : i \in 1..(Len(Worked) + Len(Corpus))}
      BY <3>1 DEF ToSet
    <3>3. \A i \in 1..Len(Worked) : Worked[i] = (Worked \o Corpus)[i]
      BY <3>1
    <3>4. \A i \in 1..Len(Corpus) : Corpus[i] = (Worked \o Corpus)[Len(Worked) + i]
      BY <3>1
    <3>5. \A i \in 1..Len(Worked) : Worked[i] \in Input
      BY <3>1, <3>2, <3>3 DEF Input, Cases
    <3>6. ASSUME NEW i \in 1..Len(Corpus) PROVE Corpus[i] \in Input
      <4>1. Len(Worked) \in Nat /\ Len(Corpus) \in Nat
        BY <3>1
      <4>2. Len(Worked) + i \in 1..(Len(Worked) + Len(Corpus))
        BY <4>1
      <4> QED
        BY <4>2, <3>2, <3>4 DEF Input, Cases
    <3> QED
      BY <3>1, <3>5, <3>6, SeqDef
  <2> QED
    BY <2>1, ConcatProperties DEF Cases
<1>2. PICK i \in DOMAIN Cases : Cases[i] = input
  BY DEF Input, ToSet
<1>3. /\ DOMAIN pairs = DOMAIN Cases /\ DOMAIN rows = DOMAIN Cases
      /\ rows[i] = Line("row", input, program[input])
  BY <1>2 DEF Pairs
<1>4. DOMAIN Cases = 1..Len(Cases) /\ Len(Cases) \in Nat
  BY <1>1
<1>5. rows \in Seq(lines) /\ Len(rows) = Len(Cases)
  <2>1. rows \in [1..Len(Cases) -> lines]
    BY <1>3, <1>4
  <2> HIDE DEF rows, lines
  <2> QED
    BY <2>1, <1>3, <1>4
<1>6. <<Header>> \in Seq(lines)
  OBVIOUS
<1>7. i + 1 \in DOMAIN (<<Header>> \o rows) /\ (<<Header>> \o rows)[i + 1] = rows[i]
  <2> HIDE DEF rows, lines
  <2> QED
    BY <1>2, <1>4, <1>5, <1>6
<1>8. File(pairs) = <<Header>> \o rows
  BY DEF File
<1>9. rows[i].kind = "row" /\ rows[i].input = input
  BY <1>3 DEF Line
<1> HIDE DEF pairs, rows
<1>10. rows[i] \in ToSet(File(pairs))
  BY <1>7, <1>8 DEF ToSet
<1>11. rows[i] \in load_golden(File(pairs))
  BY <1>9, <1>10 DEF load_golden
<1> QED
  BY <1>3, <1>11 DEF pairs

\* So the C++ test, passing on such a file, compares every case it can read.
LEMMA TestComparesPrograms ==
  ASSUME NEW t, NEW program, NEW input \in Input \ Hashed,
         t.golden = File(Pairs(program, Cases)), GoldenFileCrossValidation(t)
  PROVE  t.engine[input] = program[input]
<1> DEFINE row == Line("row", input, program[input])
<1>1. row \in load_golden(t.golden)
  BY EveryCaseHasRow
<1>2. t.engine[row.input] = row.text
  BY <1>1 DEF GoldenFileCrossValidation
<1> QED
  BY <1>2 DEF Line

-----------------------------------------------------------------------------
(* The invariant is inductive. *)

LEMMA InitHolds == Init => GoldenInv
<1> SUFFICES ASSUME Init PROVE GoldenInv
  OBVIOUS
<1>1. PICK text \in Text :
        LET table == [input \in Input |-> text] IN
          tree = [python |-> table, engine |-> table, want |-> table,
                  golden |-> File(Pairs(table, Cases))]
  BY DEF Init
<1>2. TreeTypes(tree)
  BY <1>1 DEF TreeTypes, ProgramTable
<1>3. gen.pc = "idle" /\ gen.exit = "none" /\ ci = [commit |-> tree, green |-> CrossValidation(tree)]
  BY DEF Init
<1>4. GeneratorInv
  BY DEF Init, GeneratorInv, MismatchKeepsFile
<1>5. JobInv /\ TreeTypes(ci.commit)
  <2> HIDE <1>1
  <2>1. ci.commit = tree /\ ci.green = CrossValidation(tree)
    BY <1>3
  <2> QED
    BY <2>1, <1>2 DEF JobInv
<1> QED
  BY <1>2, <1>4, <1>5 DEF GoldenInv

\* The generator writes the golden file and nothing else.
LEMMA GeneratorWritesFile ==
  ASSUME TreeTypes(tree), Generate
  PROVE  TreeTypes(tree)'
<1>1. tree' = tree \/ \E file : tree' = [tree EXCEPT !.golden = file]
  BY DEF Generate, StartMain, CheckWorked, CheckCorpus, Check, load_corpus, Open, Write,
         Close, Crash
<1>2. ASSUME NEW file, tree' = [tree EXCEPT !.golden = file]
      PROVE  TreeTypes(tree)'
  BY <1>2 DEF TreeTypes
<1> QED
  BY <1>1, <1>2 DEF TreeTypes

LEMMA CheckHolds ==
  ASSUME GeneratorInv, NEW status \in {"worked", "corpus"}, NEW last, Check(status, last)
  PROVE  GeneratorInv'
<1> DEFINE input == Cases[gen.checked + 1]
<1>1. CASE gen.python[input] = gen.want[input]
  <2>1. gen' = [gen EXCEPT !.checked = @ + 1] /\ tree' = tree
    BY <1>1 DEF Check
  <2> QED
    BY <2>1 DEF GeneratorInv, MismatchKeepsFile
<1>2. CASE gen.python[input] # gen.want[input]
  <2>1. gen' = [gen EXCEPT !.pc = "idle", !.exit = "mismatch", !.checked = 0, !.written = 0]
    BY <1>2 DEF Check, Exit
  <2>2. tree.golden = gen.before /\ tree' = tree
    BY DEF Check, GeneratorInv
  <2> QED
    BY <2>1, <2>2 DEF GeneratorInv, MismatchKeepsFile
<1> QED
  BY <1>1, <1>2

LEMMA GenerateHolds ==
  ASSUME TreeTypes(tree), GeneratorInv, Generate
  PROVE  GeneratorInv'
<1>1. CASE StartMain
  BY <1>1 DEF StartMain, GeneratorInv, MismatchKeepsFile
<1>2. CASE CheckWorked
  BY <1>2, CheckHolds DEF CheckWorked
<1>3. CASE load_corpus
  BY <1>3 DEF load_corpus, GeneratorInv, MismatchKeepsFile
<1>4. CASE CheckCorpus
  BY <1>4, CheckHolds DEF CheckCorpus
<1>5. CASE Open
  BY <1>5 DEF Open, GeneratorInv, MismatchKeepsFile
<1>6. CASE Write
  <2>1. gen.pc = "write" /\ gen' = [gen EXCEPT !.written = @ + 1]
    BY <1>6 DEF Write
  <2> QED
    BY <2>1 DEF GeneratorInv, MismatchKeepsFile
<1>7. CASE Close
  <2>1. gen' = [gen EXCEPT !.pc = "idle", !.exit = "success", !.checked = 0, !.written = 0]
    BY <1>7 DEF Close, Exit
  <2>2. tree'.golden = Output
    BY <1>7 DEF Close, TreeTypes
  <2>3. gen'.exit = "success" /\ gen'.pc = "idle" /\ gen'.python = gen.python
    BY <2>1 DEF GeneratorInv
  <2>4. GeneratorInv!1'
    BY <2>1 DEF GeneratorInv
  <2> QED
    BY <2>2, <2>3, <2>4 DEF GeneratorInv, MismatchKeepsFile, Output
<1>8. CASE Crash
  BY <1>8 DEF Crash, Exit, GeneratorInv, MismatchKeepsFile
<1> QED
  BY <1>1, <1>2, <1>3, <1>4, <1>5, <1>6, <1>7, <1>8 DEF Generate

LEMMA EditHolds ==
  ASSUME GoldenInv, Edit
  PROVE  GoldenInv'
<1>1. PICK part \in {"python", "engine", "want"}, input \in Input, text \in Text :
        tree' = [tree EXCEPT ![part][input] = text]
  BY DEF Edit
<1>2. tree.python \in ProgramTable /\ tree.engine \in ProgramTable /\ tree.want \in ProgramTable
  BY DEF GoldenInv, TreeTypes
<1>3. TreeTypes(tree)' /\ tree'.golden = tree.golden
  <2>1. CASE part = "python"
    <3>1. tree' = [tree EXCEPT !.python = [tree.python EXCEPT ![input] = text]]
      BY <1>1, <2>1
    <3>2. [tree.python EXCEPT ![input] = text] \in ProgramTable
      BY <1>2 DEF ProgramTable
    <3> QED
      BY <3>1, <3>2 DEF GoldenInv, TreeTypes
  <2>2. CASE part = "engine"
    <3>1. tree' = [tree EXCEPT !.engine = [tree.engine EXCEPT ![input] = text]]
      BY <1>1, <2>2
    <3>2. [tree.engine EXCEPT ![input] = text] \in ProgramTable
      BY <1>2 DEF ProgramTable
    <3> QED
      BY <3>1, <3>2 DEF GoldenInv, TreeTypes
  <2>3. CASE part = "want"
    <3>1. tree' = [tree EXCEPT !.want = [tree.want EXCEPT ![input] = text]]
      BY <1>1, <2>3
    <3>2. [tree.want EXCEPT ![input] = text] \in ProgramTable
      BY <1>2 DEF ProgramTable
    <3> QED
      BY <3>1, <3>2 DEF GoldenInv, TreeTypes
  <2> QED
    BY <2>1, <2>2, <2>3
<1>4. gen' = gen /\ ci' = ci
  BY DEF Edit
<1>5. GeneratorInv'
  BY <1>3, <1>4 DEF GoldenInv, GeneratorInv, MismatchKeepsFile
<1> QED
  BY <1>3, <1>4, <1>5 DEF GoldenInv, JobInv

LEMMA PushHolds ==
  ASSUME GoldenInv, Push
  PROVE  GoldenInv'
<1>1. ci' = [commit |-> tree, green |-> CrossValidation(tree)] /\ tree' = tree /\ gen' = gen
  BY DEF Push
<1>2. ci'.commit = tree /\ ci'.green = CrossValidation(tree)
  BY <1>1
<1>3. JobInv' /\ TreeTypes(ci.commit)'
  BY <1>2 DEF JobInv, GoldenInv
<1> QED
  BY <1>1, <1>3 DEF GoldenInv, GeneratorInv, MismatchKeepsFile

LEMMA NextHolds == GoldenInv /\ [Next]_vars => GoldenInv'
<1> SUFFICES ASSUME GoldenInv, [Next]_vars PROVE GoldenInv'
  OBVIOUS
<1>1. CASE Generate /\ UNCHANGED <<ci, edits>>
  BY <1>1, GeneratorWritesFile, GenerateHolds DEF GoldenInv, JobInv
<1>2. CASE UNCHANGED vars
  BY <1>2 DEF GoldenInv, GeneratorInv, MismatchKeepsFile, JobInv, vars
<1> QED
  BY <1>1, <1>2, EditHolds, PushHolds DEF Next

-----------------------------------------------------------------------------
(* Theorems *)

LEMMA GoldenInvariant == Spec => []GoldenInv
  BY InitHolds, NextHolds, PTL DEF Spec

\* A green cross-validation job shows that the two programs and what is declared agree
\* on every case the C++ test reads, and that the committed golden file is complete,
\* whenever it was committed.
THEOREM GateAlwaysSound == Spec => []GateIsSound
<1>1. GoldenInv => GateIsSound
  <2> SUFFICES ASSUME GoldenInv, ci.green PROVE GateIsSound
    BY DEF GateIsSound
  <2>1. CrossValidation(ci.commit)
    BY DEF GoldenInv, JobInv
  <2>2. \A input \in Input \ Hashed : ci.commit.engine[input] = ci.commit.python[input]
    BY <2>1, TestComparesPrograms DEF CrossValidation, DiffIsEmpty
  <2> QED
    BY <2>1, <2>2 DEF GateIsSound, CrossValidation, Regenerates, DiffIsEmpty
<1> QED
  BY <1>1, GoldenInvariant, PTL

\* After a generator that ran to its end, and no edit of the reference since, the C++
\* test alone is enough.
THEOREM FinishedRunAlwaysTrusted == Spec => []FinishedRunIsTrusted
<1>1. GoldenInv => FinishedRunIsTrusted
  BY TestComparesPrograms DEF GoldenInv, GeneratorInv, FinishedRunIsTrusted
<1> QED
  BY <1>1, GoldenInvariant, PTL

\* A run that reports a mismatch has not touched the golden file.
THEOREM MismatchAlwaysKeepsFile == Spec => []MismatchKeepsFile
<1>1. GoldenInv => MismatchKeepsFile
  BY DEF GoldenInv, GeneratorInv
<1> QED
  BY <1>1, GoldenInvariant, PTL
=============================================================================
