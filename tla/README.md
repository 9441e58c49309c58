# Verification of the Sinhala phonetic IME

TLA+ models, TLC checks and TLAPS proofs of the input method engine in
`engine/` (C++) and of its Python reference in `prototype/`. The engine turns a
stream of ASCII keystrokes (`ammaa`) into Sinhala text (අම්මා), buffering a key
for as long as a longer match is possible.

1. [The system](#1-the-system)
2. [Plan](#2-plan)
3. [The modules and the code](#3-the-modules-and-the-code)
4. [Runs](#4-runs)
5. [Proofs](#5-proofs)
6. [Disagreements between code and documentation](#6-disagreements-between-code-and-documentation)
7. [What is not modelled](#7-what-is-not-modelled)

## 1. The system

```
 host (TSF text service, not written: an interface and a hand-off guide)
   | KeyEvent{codepoint, shift, backspace}      ^ {committed, composition, consumed}
   v                                            |
 Engine ---- feed / commit / reset / composition
   |  shift bit set, exceptions swallowed
   v
 Composer -- state_, pending_consonant_, prefix_
   |  find(seq), is_strict_prefix(seq)
   v
 Mapping --- two tries, four sign codepoints, four rule keys   <-- phonetic-default.json
   .
   .  the same keymap file, the same five states, another program
   v
 Transliterator (Python, "source of truth") --> golden.txt --> C++ test
```

In the engine everything runs on the caller's thread: there is no concurrency,
nothing is persisted and no message can be lost. (Beside it there is one file that
programs and people write at moments of their own, `golden.txt`.) What is hard is
the *protocol*: five states, three fields kept consistent by hand, branches that call the dispatcher
again on the same key, two copies of the whole, and a keymap that is data. A
unit test types a word from scratch; the behaviours that go wrong are long legal
sequences of keys, backspaces, commits and resets, under keymaps nobody tried.

| component | state | operations | what makes it correct |
|---|---|---|---|
| Trie (`trie.h`) | tree of nodes | `insert`, `find`, `is_strict_prefix`, `is_prefix`, `longest_prefix_value` | answers as the dictionary of what was inserted |
| Mapping (`mapping.cpp`, `class Mapping` in Python) | the loaded keymap | load from JSON | both loaders give the same keymap, but for causes known and named; every key of the file can be typed |
| Composer (`composition.cpp`) | `state_`, `pending_consonant_`, `prefix_` | `feed` (a key, a backspace), `commit`, `reset`, `composition` | buffer well formed; no consonant lost; no combining sign without its consonant; a backspace takes back one unit; `feed` returns |
| Transliterator (`transliterate.py`) | the same three fields | `feed`, `feed_shifted`, `feed_backspace`, `commit`, `reset`, `composition` | the composer commits the same text for every sequence of calls |
| Engine (`engine.cpp`) | a mapping and a composer | the same, with `KeyEvent` | never throws; a swallowed exception leaves the composer as it was |
| Text service (`ITextInputService.h`, `phase-3-tsf-handoff.md`) | a session, the host document | an interface only | |
| Golden file (`generate_golden.py`, `test_engine.cpp`, the CI job) | `golden.txt`, a commit | regenerate, compare | a green job means that the two programs agree |
| Build, the other CI jobs | | | |

Interactions: calls only. The engine owns the mapping; the composer keeps a
reference to it and never writes it. The host must call `commit` on focus loss
and `reset` on Escape, and must pass on a key whose `consumed` is false.

### Hazards

`PROJECT.json` lists each at its line. In short: **stale fields**
(`pending_consonant_` is cleared by hand in eleven places; one branch leaves
`state_` behind), **undefined behaviour** if a prefix is empty where
`prefix_.begin() + 1` is taken, **lost or reordered text** in the branches that
commit and re-feed, **unbounded re-feeding**, **backspaces inside a partial
match**, **rule keys that act differently by state**, **drift** between the two
programs on keymaps and call sequences the golden file does not have,
**exceptions half-way through a call**, **sections of a keymap file that must
merge** in whatever order their members come, **dead branches in the trie**, and a
golden file that is **stale, torn or overwritten** when it is trusted.

## 2. Plan

Most important first; all of it is done but for what item 6 turned into.

1. `Keymap`, `Composer`: the C++ state machine in small steps, its safety
   invariants, the recursion bound, liveness of `feed`. Proved.
2. `ComposerDoc`: what the documentation promises and the code does not do.
3. `Transliterate`, `Transliterator`, `Parity`: the Python reference as an atomic
   specification, and the composer shown to implement it. Proved.
4. `Lookup`, `Dictionary`, `Trie`: nodes, `insert` and the four queries,
   implementing the dictionary the composer's model assumes. Proved.
5. `KeymapFile`, `CppLoader`, `PyLoader`, `LoaderParity`: both loaders, from the
   parsed file to the keymap. Proved, the comparison of the two included.
6. The façade: no module of its own. Its calls are the composer's; the question it
   adds is whether a failing call may be reported as one that did nothing
   (`CommitFits`, proved). A host session was planned and dropped: section 7.
7. `Speller`, `Typing`: a one-pass spelling as the reference definition of
   `transliterate_string`. Proved.
8. `Golden`: the file by which the two programs are kept in step, under edits,
   crashes and commits. Proved.

## 3. The modules and the code

### Keymap

What `struct Mapping` answers once loaded. A trie is represented by the function
from its key sequences to their payloads (`Lookup`), because the composer asks it
two questions only: `find` (`Exact`) and `is_strict_prefix`. That the tree of nodes
answers so is what `Trie` shows, and that both loaders fill it with what the file
says is what the loader modules show. A keystroke is a record
of an ASCII character and the Shift bit. Letters are opaque; `NoLetter` is the
codepoint 0 by which the code says "none". `KeymapTypes` is all that is assumed
of a keymap by default; that the loader yields nothing else, but from a file that has an
empty string or lacks a sign, is `YieldsKeymap`. The loader checks nothing about the keymap's shape. Six named
properties a keymap may have are defined beside it: `VowelsHaveNoGaps`,
`ConsonantsHaveNoGaps`, `ConsonantsAreShort`, `RuleKeysStandAlone`,
`TriesAreDisjoint` and `SignsAreDistinct`. `phonetic-default.json` has all of them but
`ConsonantsHaveNoGaps`: `c` and `^` start consonants and are none. Four of them together
are `WordsHaveOneReading`.

### Composer

Three variables are the fields (`state`, `pending`, `prefix`), four the running
call (`input`, `depth`, `committed`, `consumed`). `feed` runs a lambda,
`dispatch`, that may call itself; each activation is a step. Every recursive call
is a tail call, so no other stack than `depth` is needed. There is one action per
branch of `dispatch`, named for what it does, and one per public call:

| code | actions |
|---|---|
| `feed(c, false)`, up to `dispatch(c)` | `Feed` |
| `feed(_, true)`, by state | `BackspaceIdle`, `BackspacePrefix`, `BackspaceConsonant`, `BackspaceVowel` |
| `commit()`, `reset()` | `Commit`, `Reset` |
| rule keys | `HardTerminator`, `ConjunctAfterConsonant`, `ConjunctElsewhere`, `AnusvaraKey`, `VisargaKey` |
| `Idle` | `IdleConsonant`, `IdleConsonantPrefix`, `IdleVowel`, `IdleVowelPrefix`, `IdleUnmapped` |
| `PartialConsonant` | `ExtendConsonant`, `CompleteConsonant`, `ResolveConsonant`, `DropConsonantPrefix` |
| `ConsonantPending` | `PendingVowelPrefix`, `PendingVowel`, `PendingConsonant`, `PendingConsonantPrefix`, `PendingUnmapped` |
| `PartialVowel`, `PartialVowelStandalone` | `ExtendVowel`, `CompleteMatra`, `ResolveMatra`, `CompleteStandalone`, `ResolveStandalone` |

Text is a sequence of letters and passed-through characters: UTF-8 encoding is
injective and no property is about bytes. A field the code does not assign stays
UNCHANGED even where one expects it cleared: `PendingUnmapped` leaves `state`,
`ResolveMatra` leaves `pending` when the prefix is no vowel.

`CommitFits` carries the façade's `catch (...)` (`engine.cpp:30`), which turns any
exception into `consumed = false`. In a call of `feed` the heap can be asked for
memory at two moments. The first is before anything has changed: the closure of
`dispatch` (`composition.cpp:123`) and the extended prefix of the first activation.
The second would be the committed text. Three letters of at most four bytes fit
into what `std::string` holds in place (15 bytes in libstdc++ and MSVC, 22 in
libc++), and so do the two of the preview: if no call commits more, a call that
throws has changed nothing, and answering "not consumed, no text" is the truth.

Fairness: `WF_vars(Dispatch)` only. A call of `feed` runs on the caller's thread
and nothing in it waits, so a branch of `dispatch` that can be taken is taken;
nothing obliges a user to type.

### Transliterate, Transliterator

The Python class. `Transliterate` has its handlers as functions from the object
and a key to what they leave in the object and append to `out`; `Transliterator`
has its public methods as atomic steps. The recursion of `_feed_impl` is unfolded
once (`settle`, then `handle`): a settled object is in `IDLE` or
`CONSONANT_PENDING`, whose handlers do not re-feed. `None` is `NoLetter`. The
handlers are written from the Python source and share with the C++ model only the
keymap. `feed` and `feed_shifted` raise a `ValueError`, before anything is touched, if
they are called with something else than one (alphabetic) character; the model calls
them with what they take.

### Parity

`Reference == INSTANCE Transliterator WITH t <- Outcome.t, out <- Outcome.out`.
`Outcome` completes the running call: between calls it is the composer's own
fields and committed text, and while `feed` runs it is what the reference makes
of the rest of the call. So `Feed` is the reference's step, every branch of
`dispatch` must leave `Outcome` as it is, and when the call returns the composer
must be exactly where the reference has been waiting. Between calls nothing is
hidden: the three fields and the text are compared as they are. A refinement alone
would let the composer answer one key as the reference answers another; `Mirrored`
says that each call is the same call, on the same key.

### Lookup, Dictionary, Trie

`Trie<T>` owns its nodes and never moves them, so a node is named by its path.
`nodes` and `value` are the tree; `call`, `node`, `rest`, `best` are the running
operation and its locals. Each iteration of a loop is a step (`InsertStep`,
`LookupStep`), and so are the call (`Start`) and what follows the loop (`Store`,
`LookupMiss`, `LookupEnd`). One set of steps serves the four queries, whose loops
are the same but for `best`. `Dictionary` is what the comments of `trie.h` promise:
the same operations on a function, each of which is called and later takes effect
and answers in one step; the call is shared, so that an answer is compared with what
was asked.
`Promise == INSTANCE Dictionary WITH dict <- value`.

### KeymapFile, CppLoader, PyLoader, LoaderParity

`KeymapFile` has the file as parsed JSON and the conversion of its key strings to
keystrokes. A JSON object is a function from member names, and the members of an
object are read **in any order**: nlohmann sorts them, Python keeps the order of the
file. A string is its letters; a value of another type is null, or what Python's `if`
takes for false (`0`, `false`, `[]`, `{}`), or any other, for that is all the two
programs tell apart. The entry of a consonant may be no object. Each loader
has an action for a member read and one for the exceptions it may raise there, by class:
`runtime_error` or `type_error`, `ValueError`, `TypeError` or `AttributeError`. C++ builds a vowel
from two sections by read-modify-write (`ExistingVowel`, `ReadSign`); Python goes
once over the union of the keys and then derives the prefix sets its queries use.
`Plain` is the shape of `phonetic-default.json`, with any members, keys written in
both sections of consonants included (the second section wins); `Portable` is wider:
a file that is portable and not plain must be refused. What makes a file not portable is
what the two programs take differently, each cause with a name (`HasOddString`,
`HasFalsy`, `HasBareEntry`, `HasUpperKey`, `LacksSign`, and a flag that is not a
Boolean). `LoaderParity` runs both programs on one file, portable or not, and compares
how they end. `IsFile` leaves out sections that are not objects, rule keys that are not
strings, key strings with characters outside ASCII, and `version`, which nothing reads.

### Speller, Typing

`Typing` is `transliterate_string`: the reference's `Feed` once per character of the
word (a capital is a Shift and a key), what it returns collected, `commit` at the
end. `Speller` is a definition of the same without a machine: the word is cut into
the longest units the keymap knows, and each unit is written from itself and its
two neighbours alone. It is written from the rules of the design document, not from
the code, and stands for none. (One thing is the code's: an unmapped key pressed with
Shift is written as its lower-case letter, see section 6.) `MCTyping` checks that the
keymap of the run satisfies what the theorem about words assumes. `Regular` names the three things the code does
otherwise; `WritesWhatIsSpelled` is about the words without them. A little over a
quarter of all five-key words are regular, and each of the three exclusions is
needed: without it TLC finds a word.

### Golden

`main()` of the generator: load the mapping and `WORKED_CASES` (`StartMain`), check
them one by one, load the corpus, check it, `Open` (which truncates), write line by
line through a buffer of which any part may have reached the disk, `Close`. It may
be interrupted anywhere (`Crash`, which also stands for a corpus line that does not
split in two). Meanwhile the developer edits the reference, the engine or the
declared outputs, and commits whatever the working tree holds, a half-written golden
file included. CI works on a checkout of its own, so its three commands are one
step; the commit that the first state finds has been through it. A program is its
table of outputs, and the rows that `load_golden` reads are a set: the test goes
through all of them and stops at none.

### MC modules

`MCKeymap` has the two keymaps the composer's runs use; `MCComposer`, `MCParity` and
`MCTyping` add it to what they check. `MCTrie` has key sequences, `MCFiles` keymap
files for `MCLoaders` and `MCPyLoader`, `MCGolden` three cases. `ComposerDoc` holds
three sentences of the documentation that section 6 refutes.

## 4. Runs

For the composer, two keymaps, chosen for shape and not for size. Letters enter no condition, so
one letter per role is enough.

* **shipped**: every shape that occurs in `phonetic-default.json`. A consonant
  that nothing extends, with a Shift variant (`k`, `K`) and without (`h`); one
  that is a prefix (`t`, `th`); a digraph with a shifted first key (`Th`); a
  prefix that is no consonant (`c`); vowel chains of one to three keys (`a`,
  `aa`, `ae`, `aee`); a vowel without a matra (`a`); a shifted vowel (`I`); keys
  mapped to nothing (`z`).
* **gapped**: shapes the loaders accept and the shipped file has not. A vowel of
  three keys none of whose prefixes is a vowel (`oei`); one-sided vowels; a
  consonant of three keys whose two-key prefix is none (`ntr`); a key that starts a consonant
  and a vowel (`y`); no passthrough.

In `shipped` and `gapped` there is no bound on the length of what is typed and no counter is cut off: the
prefix is bounded by the longest key of the keymap, the depth by two (both are
invariants) and `committed` holds one call's text. TLC therefore visits *all*
reachable states: 1788 under the shipped keymap, 1931 under the gapped one.
Deadlock checking is on, which shows that the branches of `dispatch` are
exhaustive: no state and key are without a transition.

| run | shows |
|---|---|
| `shipped` | `TypeOK`; `PrefixIsLive`: the prefix is never empty where its first key is taken, and is always the start of a longer key; `BufferShape`: a consonant is buffered only in the two states that expect one; `ViramaFollowsConsonant`: no virama without its consonant, no ZWJ without its virama, across re-feeds; `RefeedBounded`: a key is dispatched at most twice; `CommitFits`: a call commits at most three letters; `PreviewsAgreeOnConsonants`; `NoConsonantLost`: a consonant leaves the buffer only into the text, unless the user erases it; `BackspaceShrinks`: a backspace takes back the last key of the prefix or, without one, the consonant, and no more, commits nothing, and is consumed only if it took something or the state is the hollow one of `doc_backspace`; `FeedReturns`; `MirrorsReference`: C++ implements Python |
| `gapped` | `PrefixIsLive`, `ViramaFollowsConsonant` and `RefeedBounded` under the gapped keymap; `MirrorsOutsideGaps`: there the two programs differ only in a call that meets a vowel prefix that is no vowel |
| `trie` | `TypeOK`; `NoDeadEnds`: no node leads nowhere, so `is_strict_prefix` may look at the children alone; `ImplementsDictionary` |
| `loaders` | both loaders on one file, of 32: `LoadsWhatIsWritten` (C++): a plain file becomes what it writes down, any other portable file is refused; `YieldsKeymap`: what is loaded from any file, but one with an empty string or without one of the signs, is a keymap as the composer's model assumes it, without a codepoint 0; `KeysCanBeTyped`: every key loaded from a portable file can be produced by keystrokes, unless it is a digraph with a capital after its first letter or a default rule key; `LoadersAgree`: on any file both raise or both load the same keymap, but for six causes, each of which is allowed for the one kind of difference it makes |
| `py_loader` | the Python loader alone: `LoadsWhatIsWritten`, refusals included; `PrefixSetsAreTries`: the derived prefix sets answer as the C++ tries |
| `typing` | `WritesWhatIsSpelled`, for every word of up to five keys |
| `golden` | `GateIsSound`: the cross-validation job is green only if, on every case the C++ test reads, the two programs write what is declared, and the committed file is complete; `FinishedRunIsTrusted`: without CI, after a generator that ended normally and no later edit of the reference, a passing C++ test means agreement; `MismatchKeepsFile`: a run that reports drift has overwritten nothing |
| `doc_matra`, `doc_dropped`, `doc_backspace`, `parity_gaps`, `doc_typeable` | section 6 |

`BufferShape`, `NoConsonantLost` and `BackspaceShrinks` are false under the gapped keymap:
`ResolveMatra` leaves the consonant behind in `Idle`, where the next consonant
overwrites it, and where a backspace in a standalone prefix clears it together with the
last key. The theorems state the assumption.

The other bounds:

* `trie`: five sequences over three symbols, nested three deep, one of them with a
  prefix that is no key; two values, so that an overwrite shows. No bound on the
  number of calls: the tree is finite.
* `loaders`, `py_loader`: a small copy of the shipped file and changes to it, one or
  two at a time: each kind of value in each section, a key written twice, a missing
  rule. All orders of the members. Deadlock checking is off: a loader ends.
* `typing`: `MaxLen = 5` keys from twelve, one for each role a key can have in
  `shipped`. The longest key has three, so a word holds a whole unit with a
  neighbour on either side. Deadlock checking is off: the word ends.
* `golden`: two worked cases, one of them starting with `#`, and one of the corpus;
  two outputs; `MaxEdits = 2`, enough to edit a program and undo it, or both
  programs. Outputs are interchangeable (`Permuted`): no step names one. No bound on
  runs of the generator, crashes and commits. A `#` case may occur in
  `WORKED_CASES` only; the shipped list has none, and `Hashed` names what would be
  lost with one.

Each property is broken by a plausible bug in one definition (`mutants` in
`PROJECT.json`): a flush without its test for 0, a buffer not cleared, a
backspace that drops the whole prefix, a branch that re-feeds in place. The
mutated operators stand before the definitions they replace and are named
`<definition>_<bug>`.

## 5. Proofs

Checked by TLAPS. The composer's theorems hold for **every** keymap that satisfies
`KeymapTypes`: any number of keys, of any length, in tries of any shape. Those on the
trie hold for every set of symbols, values and sequences, those on the loaders for
every set of files of the form described in section 3 (`IsFile`), the one on words for words of any
length, those on the golden file for every list of cases, every set of outputs and any
number of edits.

| theorem | assumes also | states |
|---|---|---|
| `TypeCorrect` | | `Spec => []TypeOK` |
| `PrefixAlwaysLive` | | `Spec => []PrefixIsLive` |
| `RefeedAlwaysBounded` | | `Spec => []RefeedBounded` |
| `CommitAlwaysFits` | | `Spec => []CommitFits` |
| `BufferAlwaysShaped` | `VowelsHaveNoGaps` | `Spec => []BufferShape` |
| `ConsonantNeverLost` | `VowelsHaveNoGaps` | `Spec => NoConsonantLost` |
| `BackspaceAlwaysShrinks` | `VowelsHaveNoGaps` | `Spec => BackspaceShrinks` |
| `ViramaAlwaysFollows` | `SignsAreDistinct` | `Spec => []ViramaFollowsConsonant` |
| `ComposerMirrorsOutsideGaps` | | `Spec => MirrorsOutsideGaps` |
| `ComposerImplementsReference` | `VowelsHaveNoGaps` | `Spec => MirrorsReference` |
| `PreviewsAlwaysAgreeOnConsonants` | | `Spec => []PreviewsAgreeOnConsonants` |
| `TrieTypeCorrect`, `TrieHasNoDeadEnds` | | `Spec => []TypeOK`, `Spec => []NoDeadEnds` |
| `TrieImplementsDictionary` | no sequence is empty | `Spec => ImplementsDictionary` |
| `CppLoadsWhatIsWritten`, `PyLoadsWhatIsWritten` | | `Spec => []LoadsWhatIsWritten`, of each loader |
| `CppYieldsKeymaps` | | `Spec => []YieldsKeymap` |
| `CppKeysAlwaysTypeable` | | `Spec => []KeysCanBeTyped` |
| `LoadersAlwaysAgree` | | `BothSpec => []LoadersAgree` |
| `PrefixSetsAlwaysTries` | | `Spec => []PrefixSetsAreTries` |
| `WordsAlwaysSpelled` | `WordsHaveOneReading` | `WordSpec => []WritesWhatIsSpelled` |
| `GateAlwaysSound` | | `Spec => []GateIsSound` |
| `FinishedRunAlwaysTrusted` | | `Spec => []FinishedRunIsTrusted` |
| `MismatchAlwaysKeepsFile` | | `Spec => []MismatchKeepsFile` |

The argument. `TypeOK` is inductive once the texts each flush appends are known
to be texts. `PrefixIsLive` is inductive relative to `TypeOK`: a prefix is
buffered or extended only after `is_strict_prefix` said yes, and a backspace keeps
it live because a non-empty front of a live prefix is live
(`FrontIsStrictPrefix`). Without gaps a live vowel prefix is a vowel
(`LiveVowelIsExact`), so `ResolveMatra` always takes the branch that clears
`pending`; this makes `BufferShape` inductive relative to the first two, and
`NoConsonantLost` follows step by step: each branch that overwrites `pending`
first appends a text that begins with it. `BackspaceShrinks` needs `BufferShape` too: in
a standalone prefix the code clears `pending` with the last key, which is right only if
nothing is pending there. `RefeedBounded` rests on one lemma,
`RedispatchStates`: only the partial states re-feed, and they do so into states
that do not. `ViramaFollowsConsonant` is not inductive alone, since a virama is
put after whatever is pending; `PendingIsConsonant` strengthens it, and a text
lemma shows that well-signed texts may be concatenated.

Parity is a refinement proof by simulation, in three parts. The reference's
operators, seen through the instance, are those of `Transliterate`
(`SameHandlers`). Every branch of `dispatch` leaves `Outcome` as it was: one that
returns has just become what the reference's handler returns
(`ReturnKeepsOutcome`); one that re-feeds has done what `settle` does, and what
is left of the call is the reference's second half, by associativity of `\o`
(`RefeedKeepsOutcome`). Every call takes `Outcome` where the reference's method
takes the object (`FeedMirrors` to `ResetMirrors`). Each of these needs no more of
the keymap than that the prefix at hand is not in a gap; `VowelsHaveNoGaps` and
`PrefixIsLive` exclude gaps for good (`NoGapsMet`).

`CommitAlwaysFits` bounds what each flush returns (`ShortFlushes`: two letters), what
each branch appends (`DispatchEmits`: three if it returns, two if it re-feeds, one in
`Idle`), and adds them up: a call appends nothing before it is re-fed but what the
re-feeding branch did, and the second activation starts in `Idle` with at most two
letters or in `ConsonantPending` with none (`CallFits`). `RedispatchStates` excludes a
third.

The trie. `TrieInv` says that every node but those an insert is growing leads to a
stored key, that the loop has reached the path `call.seq` minus `rest`, and what
`best` is: the longest stored prefix of that path. `TypeOK` and `NoDeadEnds` are
parts of it, and it makes each last step of an operation the one step of the
dictionary. The empty sequence is excluded because there the code and its comments
part (section 6); `PrefixIsLive` is what shows that the composer never asks about it.

The loaders. The invariants say three things of the file's members read so far. For a
plain file, what the keymap holds of them (`HoldsConsonants`, `HoldsVowels`), section by
section; the order does not matter because two keys of one section are stored under two
sequences, which is where `Injection` in `FileTypes` is needed. For every file, that each
of them is accepted (`ReadIsAccepted`; `Accepts` says which files have only such), and of
C++, that what they left in the keymap is typed (`TypedSoFar`). How a file ends is
therefore decided by the file alone (`Outcome`): loaded only if `Accepts`, refused only if
not, and if it is plain with `Means(file, m)`. A portable file that is accepted is plain
(`PortableAccepted`); `MeaningIsTypeable` gives the theorem on typing, and `TypedSoFar` the
one on types, which closes a circle: what the composer's theorems assume of a keymap
(`KeymapTypes`) is a theorem about the loader. `LoadersAlwaysAgree` takes the Python half
through an instance of `PyLoader_proofs` (`PyOutcomeHolds`), restated in the words of its
own module (`OutcomeRestated`), and compares the two conditions of acceptance:
`OnlyCppRefuses`, `OnlyPyRefuses`, and `BothAccept`, by which a file without a cause to be
loaded differently is plain, so that its keymap is one (`MeaningIsUnique`).

Words. The spelling cuts the whole word at once and the object reads it a key at a
time, so the proof is an induction over the word. tlapm cannot use the library's
induction theorems, whose parameter is an operator; that `<` is well-founded on the
naturals is a fact about sets, and gives `Induction`: a set of numbers with 0 and the
successor of each member has them all. From it come the two recursive functions in
question, the concatenation (`FlattenOfAppend`) and the cut (`WordsAreCut`,
`CutIsUnits`), and then `UnitsOfMore`: a key more either makes the last unit longer or is
a unit by itself, and changes no other. The inductive invariant, `SpelledSoFar`, says of
a word that is regular so far that the object `Follows` it: at most the last unit, and
the consonant before it if that unit is a vowel, is buffered, and what was written is
the text of the rest, joined to the consonant to come. A key that does not extend the
buffer finds it settled, at once or by the re-feed (`Settles`), and is then one of the
cases of `OrdinaryStep`; the others are rule keys (`RuleKey`) and keys that make the last
unit longer (`GrowKey`). A commit completes the text (`CommitCompletes`).
`WordsHaveOneReading` is four conditions, each of which the argument needs, and none of
which a loader checks. With a vowel `oei` and no `o`, the word `o` is lost when it is
committed; with a consonant `ntr` and no `nt`, `nt` falls back to `n`; a rule key inside
a consonant is never looked up; and a key that is both a consonant and a vowel is read
by the machine as the one or the other, by state.

The golden file. `GeneratorInv` strengthens `MismatchKeepsFile`: a generator that is
still checking has not touched the file, one that ended well has left it whole, and no
exit status outlives the start of the next run. `JobInv` says that a job was green for
no other reason than that its three commands succeeded on the commit. What makes
either say something of the *programs* is `EveryCaseHasRow`: a whole file has a row for
every case, so that a passing test has compared the two programs on every case but
those that `load_golden` takes for comments (`TestComparesPrograms`).

Only model-checked: `FeedReturns` (liveness under fairness) and the absence of deadlock
(`ENABLED`), which are beyond this prover. Every safety property of a passing run is a
theorem.

Where the proofs are: `Composer_proofs` has the composer's and the three of parity,
`Trie_proofs`, `Typing_proofs`, `PyLoader_proofs` and `Golden_proofs` those of their modules,
`Loaders_proofs` those of the C++ loader and of both together; `Lookup_proofs` and
`KeymapFile_proofs` have lemmas they share.

## 6. Disagreements between code and documentation

Five are runs, each of which TLC must find violated.

1. `doc_matra`. After a consonant, an unmapped key (space, a digit) leaves the
   composer in `ConsonantPending` with nothing pending
   (`composition.cpp:323-327`). So after `k`, space, the key `i` is committed as a
   bare matra, and `a` vanishes. The Python reference does the same.
2. `doc_dropped`. `c` and `^` are buffered, and dropped when the next key does not
   complete a consonant; the document lists `c` as unmapped and says unmapped
   characters are appended verbatim.
3. `doc_backspace`. The same stale state: after `k`, space everything has been
   committed and nothing is buffered, and yet the next backspace is consumed
   (`composition.cpp:106-109`) and erases nothing. The document says that a backspace
   after committed text is passed through, and that the machine is back in `Idle`.
4. `parity_gaps`. With a vowel prefix that is no vowel, `commit` and the rule keys
   flush the pending consonant in C++ and drop it in Python, and a key that ends
   the prefix makes Python fall back to the vowel of the first key. The header
   says the composer mirrors the reference byte for byte. Dead under the shipped
   keymap.
5. `doc_typeable`. `^D` of the shipped keymap is stored as `^` and a raw `D`, which
   no keystroke produces; the design document lists it. The run has one file, with this
   key and all rule keys, so that nothing else can be what TLC finds.

Met while modelling, and left to prose:

* A keymap file that leaves out `conjunct_marker` or `visarga_key` gets the default, a
  raw `X` or `Q`, in both programs; typed, they arrive as Shift and a letter, so neither
  can be typed. The shipped file writes both. `KeysCanBeTyped` excludes this by name.
* After `k`, space, `i` the C++ preview is a bare matra and the Python preview is
  empty; `PreviewsAgreeOnConsonants` excludes exactly this.
* The conjunct key after `t`, `d` or `s`, which are still prefixes, commits the
  consonant plain and joins nothing.
* An unmapped key pressed with Shift passes through as its lower-case letter, where
  the document says verbatim.
* On the empty sequence `longest_prefix_value` ignores a value stored at the root and
  `is_prefix` is true of an empty trie; the comments of `trie.h` say otherwise. No
  caller passes it.
* `mapping.h` says the C++ loader throws `runtime_error` on any error, `engine.h` on a
  schema mismatch; a value of another type makes it throw nlohmann's `type_error`.
* The loaders differ on files that are not
  portable; `LoadersAgree` has the list. A letter given as `0`, `false`, `[]` or `{}` is
  skipped by Python where it may be left out, and makes C++ throw; so does a flag that is
  no Boolean. A consonant entry that is not an object is skipped by C++ and makes Python
  raise an `AttributeError`. Of a longer string C++ takes the first letter, of an empty
  one 0, of a missing sign 0, where Python raises, skips or takes a default; an upper-case
  single key gets its Shift form under two keys in Python.

## 7. What is not modelled

* **UTF-8** encoding and decoding, JSON parsing, reading the keymap file, its
  `version`, the command line: formatting around the modelled core.
* **Allocation failure** as an action: section 3 says why a failing call is one that
  did nothing, `CommitFits` is the part of the argument that could be wrong.
* The **text service**: `tsf_stub/` has an abstract interface and the hand-off guide
  a page of pseudo-code. There is no implementation whose steps, guards or errors
  could be translated; a model of it would be a model of the guide.
* **Threads**: `engine.h` gives each input context an engine of its own and the
  code has no locks; concurrent calls are outside its contract.
* **Build** and the CI jobs other than cross-validation: no behaviour of the program.
