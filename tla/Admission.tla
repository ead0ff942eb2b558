----------------------------- MODULE Admission ------------------------------
(***************************************************************************)
(* Which sentences a capsule may hold (core/admission.rs), the bounded     *)
(* text made of one (core/experience.rs) and the order in which the record *)
(* command refuses its three texts (runtime.rs).                           *)
(*                                                                         *)
(* Abstracted: a text is what the checks see of it.  A word keeps its      *)
(* length and what its characters show; markers that may span words        *)
(* (a URL, credentials, a phrase of a transcript) and the counts over all  *)
(* characters are fields of the text.                                      *)
(***************************************************************************)
EXTENDS Naturals, Sequences

SITUATION_MAX_CHARS == 240
LESSON_MAX_CHARS == 320
CAVEAT_MAX_CHARS == 160

MIN_WORDS == 3
MAX_TOKEN_CHARS == 40
MAX_DIGIT_TOKEN_CHARS == 24

(* An extension has one to five letters or digits; a source extension is    *)
(* one of a list, some of which are longer.                                *)
Words ==
  [chars : Nat \ {0},          \* with the punctuation around it
   digit : BOOLEAN,
   forbidden : BOOLEAN,        \* a character of FORBIDDEN_CHARS
   assignment : BOOLEAN,       \* a longer word with an equals sign
   transcript : BOOLEAN,       \* one of TRANSCRIPT_WORDS
   rooted : BOOLEAN,           \* begins like a path, or has a Windows one
   slashes : Nat,
   extension : BOOLEAN,
   sourceExtension : BOOLEAN]

Texts ==
  [words : Seq(Words),
   padding : {"none", "blanks", "line breaks"},  \* around the words
   chars : Nat,                \* without the padding
   control : BOOLEAN,          \* a control character between the words
   url : BOOLEAN, secret : BOOLEAN, phrase : BOOLEAN,
   solid : Nat,                \* characters that are no white space
   symbols : Nat,              \* those that are no letter, digit or plain punctuation
   informative : Nat]          \* different words of 3 or more characters, not generic

Rejections ==
  {"empty", "too_short", "too_long", "control_character", "transcript_like", "url_like",
   "path_like", "command_or_code_like", "secret_like", "opaque_token", "not_specific"}
Admitted == "admitted"

SomeWord(text, P(_)) == \E i \in DOMAIN text.words : P(text.words[i])

(* looks_like_path: "read/write" is prose, one separator with a file        *)
(* extension is not.                                                       *)
PathLike(word) ==
  \/ word.rooted
  \/ word.slashes >= 2
  \/ word.slashes = 1 /\ word.extension
  \/ word.slashes = 0 /\ word.sourceExtension

Assignment(word) == word.assignment
Forbidden(word) == word.forbidden
Conversational(word) == word.transcript
Opaque(word) ==
  \/ word.chars >= MAX_TOKEN_CHARS
  \/ word.digit /\ word.chars >= MAX_DIGIT_TOKEN_CHARS

(* MAX_SYMBOL_RATIO: 15 %.                                                  *)
Symbolic(text) == 100 * text.symbols > 15 * text.solid

(* admit_text: the first check that fails names the reason.                *)
Checks(text, max) ==
  <<[reason |-> "empty", fails |-> text.words = <<>>],
    [reason |-> "too_long", fails |-> text.chars > max],
    [reason |-> "control_character", fails |-> text.control],
    [reason |-> "url_like", fails |-> text.url],
    [reason |-> "path_like", fails |-> SomeWord(text, PathLike)],
    [reason |-> "command_or_code_like",
     fails |-> SomeWord(text, Forbidden) \/ SomeWord(text, Assignment)],
    [reason |-> "secret_like", fails |-> text.secret],
    [reason |-> "too_short", fails |-> Len(text.words) < MIN_WORDS],
    [reason |-> "transcript_like", fails |-> text.phrase \/ SomeWord(text, Conversational)],
    [reason |-> "opaque_token", fails |-> SomeWord(text, Opaque)],
    [reason |-> "command_or_code_like", fails |-> text.words # <<>> /\ Symbolic(text)]>>

AdmitText(text, max) ==
  LET checks == Checks(text, max)
      failing == {i \in DOMAIN checks : checks[i].fails} IN
    IF failing = {} THEN Admitted
    ELSE checks[CHOOSE i \in failing : \A j \in failing : i <= j].reason

(* admit_specific_text: only for sentences written now.                    *)
AdmitSpecificText(text) == IF text.informative < 2 THEN "not_specific" ELSE Admitted

(* BoundedText::new keeps the text without its padding; deserialize calls   *)
(* it again on what was kept.                                              *)
BoundedText(text, max) ==
  IF AdmitText(text, max) = Admitted THEN [text EXCEPT !.padding = "none"]
  ELSE AdmitText(text, max)

(* experience record: the field and the reason of the first refusal.  The   *)
(* caveat may be missing (None).                                           *)
RecordRefusals(situation, lesson, caveat, None) ==
  <<[field |-> "situation", reason |-> AdmitText(situation, SITUATION_MAX_CHARS)],
    [field |-> "lesson", reason |-> AdmitText(lesson, LESSON_MAX_CHARS)],
    [field |-> "caveat",
     reason |-> IF caveat = None THEN Admitted ELSE AdmitText(caveat, CAVEAT_MAX_CHARS)],
    [field |-> "situation", reason |-> AdmitSpecificText(situation)],
    [field |-> "lesson", reason |-> AdmitSpecificText(lesson)]>>

Refusal(situation, lesson, caveat, None) ==
  LET refusals == RecordRefusals(situation, lesson, caveat, None)
      refused == {i \in DOMAIN refusals : refusals[i].reason # Admitted} IN
    IF refused = {} THEN None
    ELSE refusals[CHOOSE i \in refused : \A j \in refused : i <= j]

=============================================================================
