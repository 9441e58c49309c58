------------------------------ MODULE MCFiles ------------------------------
(***************************************************************************)
(* Keymap files for TLC.                                                   *)
(***************************************************************************)
EXTENDS KeymapFile, TLC

FileChar == {"k", "K", "h", "d", "D", "^", "a", "A", "i", "I", "x", "X", "q", "Q"}
FileLower ==
  "K" :> "k" @@ "D" :> "d" @@ "A" :> "a" @@ "I" :> "i" @@ "X" :> "x" @@ "Q" :> "q"
FileLetter == {"KA", "KHA", "NDA", "NNDA", "HA", "A", "AA", "I", "virama", "anusvara", "visarga", "zwj"}
SpecialDefaults == [s \in SpecialName |-> s]
RuleDefaults ==
  "terminator_key" :> "x" @@ "conjunct_marker" :> "X" @@
  "anusvara_key" :> "q" @@ "visarga_key" :> "Q"

Str(l) == [kind |-> "string", text |-> <<l>>]
Two == [kind |-> "string", text |-> <<"KA", "HA">>]
Blank == [kind |-> "string", text |-> <<>>]
Other(kind) == [kind |-> kind, text |-> <<>>]
Null == Other("null")
Yes == Other("truthy")
No == Other("falsy")
Absent == Other("absent")
Entry(base, shift) == [is_object |-> TRUE, base |-> base, shift |-> shift]
Bare == [is_object |-> FALSE, base |-> Absent, shift |-> Absent]

\* In small, mapping/phonetic-default.json: a consonant with a Shift form and one
\* without, digraphs, one of them shifted, and a vowel with no sign.
Default == [
  consonants |-> <<"k">> :> Entry(Str("KA"), Str("KHA")) @@ <<"h">> :> Entry(Str("HA"), Absent),
  multi_key_consonants |-> <<"k", "h">> :> Str("KHA") @@ <<"K", "h">> :> Str("NDA"),
  vowels_standalone |-> <<"a">> :> Str("A") @@ <<"a", "A">> :> Str("AA"),
  vowel_signs |-> <<"a">> :> Null @@ <<"a", "A">> :> Str("AA") @@ <<"I">> :> Str("I"),
  special |-> [s \in SpecialName |-> Str(s)],
  rules |-> [r \in RuleName |-> <<<<RuleDefaults[r]>>>>],
  unmapped_passthrough |-> "true"]

\* With two of the digraphs of the shipped file: its ^D is the only key with a capital
\* that is not the first.
ShippedDigraphs ==
  [Default EXCEPT !.multi_key_consonants = <<"^", "D">> :> Str("NNDA") @@ <<"^", "d">> :> Str("NDA")]

\* The file the design document describes, as far as its keys go.
ShippedFiles == {ShippedDigraphs}

\* Plain, each with something else: a null letter, no rules, no passthrough.
PlainFiles == {
  Default, ShippedDigraphs,
  [Default EXCEPT !.consonants = <<"k">> :> Entry(Null, Str("KHA")) @@ <<"^">> :> Entry(Str("NDA"), Null),
                  !.vowel_signs = <<"a", "a">> :> Null],
  [Default EXCEPT !.vowels_standalone = <<"I">> :> Null @@ <<"i">> :> Str("I") @@ <<"a">> :> Null,
                  !.rules = [r \in RuleName |-> <<>>]],
  [Default EXCEPT !.rules.conjunct_marker = <<>>, !.unmapped_passthrough = "false"],
  [Default EXCEPT !.unmapped_passthrough = "absent"]}

\* Portable, but to be refused.
BadFiles == {
  [Default EXCEPT !.consonants = <<"k", "h">> :> Entry(Str("KA"), Absent)],
  [Default EXCEPT !.consonants = <<"k">> :> Entry(Yes, Absent) @@ <<"h">> :> Entry(Str("HA"), Null)],
  [Default EXCEPT !.consonants = <<"k">> :> Entry(Str("KA"), Yes)],
  [Default EXCEPT !.multi_key_consonants = <<"k", "h">> :> Null @@ <<"^", "d">> :> Str("NDA")],
  [Default EXCEPT !.multi_key_consonants = <<"k", "h">> :> No],
  [Default EXCEPT !.vowels_standalone = <<"a">> :> Yes @@ <<"i">> :> Str("I")],
  [Default EXCEPT !.vowel_signs = <<"a">> :> Yes @@ <<"i">> :> Str("I")],
  [Default EXCEPT !.special.zwj = Null],
  [Default EXCEPT !.special.virama = No],
  [Default EXCEPT !.rules.anusvara_key = <<<<"q", "q">>>>]}

\* Plain too: a key of both sections of consonants, and a key of no characters.
RewrittenFiles == {
  [Default EXCEPT !.multi_key_consonants = <<"k">> :> Str("NDA") @@ <<"K">> :> Str("HA")],
  [Default EXCEPT !.multi_key_consonants = <<>> :> Str("NDA")]}

\* Not portable: the causes for which the programs part, some of them together.
OddFiles == {
  [Default EXCEPT !.consonants = <<"k">> :> Entry(No, Absent)],
  [Default EXCEPT !.consonants = <<"k">> :> Entry(Str("KA"), No) @@ <<"h">> :> Entry(Yes, Absent)],
  [Default EXCEPT !.consonants = <<"k">> :> Bare @@ <<"h">> :> Entry(Str("HA"), Absent)],
  [Default EXCEPT !.consonants = <<"k">> :> Entry(Blank, Absent)],
  [Default EXCEPT !.vowels_standalone = <<"a">> :> No],
  [Default EXCEPT !.vowel_signs = <<"a">> :> No @@ <<"I">> :> Two],
  [Default EXCEPT !.consonants = <<"K">> :> Entry(Str("KA"), Str("KHA"))],
  [Default EXCEPT !.consonants = <<"k">> :> Entry(Two, Str("KHA"))],
  [Default EXCEPT !.multi_key_consonants = <<"k", "h">> :> Two],
  [Default EXCEPT !.vowels_standalone = <<"a">> :> Blank],
  [Default EXCEPT !.vowel_signs = <<"a">> :> Two],
  [Default EXCEPT !.special.virama = Absent],
  [Default EXCEPT !.unmapped_passthrough = "truthy"],
  [Default EXCEPT !.unmapped_passthrough = "falsy", !.special.zwj = Absent]}

AllFiles == PlainFiles \cup BadFiles \cup RewrittenFiles \cup OddFiles
=============================================================================
