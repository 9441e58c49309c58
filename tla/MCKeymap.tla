------------------------------ MODULE MCKeymap ------------------------------
(***************************************************************************)
(* Keymaps for TLC.  A character and a letter are strings; a letter's name *)
(* is its Unicode name.                                                    *)
(***************************************************************************)
EXTENDS Keymap, TLC

Plain(c) == [cp |-> c, shift |-> FALSE]
Shift(c) == [cp |-> c, shift |-> TRUE]
Keys(chars) == [i \in DOMAIN chars |-> Plain(chars[i])]
Vowel(standalone, matra) == [standalone |-> standalone, matra |-> matra]

mc_virama == "AL-LAKUNA"
mc_anusvara == "ANUSVARAYA"
mc_visarga == "VISARGAYA"
mc_zwj == "ZWJ"

terminator == Plain("x")
conjunct == Shift("x")
anusvara_q == Plain("q")
visarga_q == Shift("q")

Signs == {mc_virama, mc_anusvara, mc_visarga, mc_zwj}

(***************************************************************************)
(* The shape of mapping/phonetic-default.json: a consonant that nothing    *)
(* extends, with a Shift variant (k) and without (h); one that is a prefix *)
(* (t); a prefix that is no consonant (c); a multi-key consonant that      *)
(* starts with Shift (Th); a vowel with no matra (a), chains of one, two   *)
(* and three keys, and one on a shifted key (I); keys mapped to nothing    *)
(* (z, and c, t, h, i where their Shift is not a key).                     *)
(***************************************************************************)
ShippedChar == {"k", "t", "h", "c", "a", "e", "i", "x", "q", "z"}

ShippedConsonants ==
  (Keys(<<"k">>)              :> "KA") @@
  (<<Shift("k")>>             :> "KHA") @@
  (Keys(<<"t">>)              :> "TTA") @@
  (Keys(<<"h">>)              :> "HA") @@
  (Keys(<<"t", "h">>)         :> "TA") @@
  (<<Shift("t"), Plain("h")>> :> "THA") @@
  (Keys(<<"c", "h">>)         :> "CA")

ShippedVowels ==
  (Keys(<<"a">>)           :> Vowel("AYANNA", NoLetter)) @@
  (Keys(<<"a", "a">>)      :> Vowel("AAYANNA", "AELA-PILLA")) @@
  (Keys(<<"a", "e">>)      :> Vowel("AEYANNA", "KETTI AEDA-PILLA")) @@
  (Keys(<<"a", "e", "e">>) :> Vowel("AEEYANNA", "DIGA AEDA-PILLA")) @@
  (Keys(<<"i">>)           :> Vowel("IYANNA", "KETTI IS-PILLA")) @@
  (Keys(<<"i", "i">>)      :> Vowel("IIYANNA", "DIGA IS-PILLA")) @@
  (<<Shift("i")>>          :> Vowel("IIYANNA", "DIGA IS-PILLA"))

LettersOf(consonants, vowels) ==
  (Signs \cup {consonants[s] : s \in DOMAIN consonants}
         \cup {vowels[s].standalone : s \in DOMAIN vowels}
         \cup {vowels[s].matra : s \in DOMAIN vowels}) \ {NoLetter}

ShippedLetter == LettersOf(ShippedConsonants, ShippedVowels)

(***************************************************************************)
(* A keymap the loader accepts and the shipped one is not: a vowel of      *)
(* three keys none of whose prefixes is a vowel (oei), one with only a     *)
(* matra and one with only a standalone form, a consonant of three keys    *)
(* whose first two are none (ntr), a key that starts a consonant and a     *)
(* vowel (y), and no passthrough.                                          *)
(***************************************************************************)
GappedChar == {"k", "n", "t", "r", "y", "o", "e", "i", "x", "q"}

GappedConsonants ==
  (Keys(<<"k">>)           :> "KA") @@
  (Keys(<<"n">>)           :> "NA") @@
  (Keys(<<"n", "t", "r">>) :> "NDRA") @@
  (Keys(<<"t", "r">>)      :> "TRA") @@
  (Keys(<<"y">>)           :> "YA")

GappedVowels ==
  (Keys(<<"o", "e", "i">>) :> Vowel("OOYANNA", "KOMBUVA")) @@
  (Keys(<<"i">>)           :> Vowel(NoLetter, "KETTI IS-PILLA")) @@
  (Keys(<<"e">>)           :> Vowel("EYANNA", NoLetter)) @@
  (Keys(<<"e", "e">>)      :> Vowel("EEYANNA", "DIGA KOMBUVA")) @@
  (Keys(<<"y", "i">>)      :> Vowel("AIYANNA", "KOMBU DEKA"))

GappedLetter == LettersOf(GappedConsonants, GappedVowels)
=============================================================================
