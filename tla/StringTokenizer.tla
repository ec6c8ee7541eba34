--------------------------- MODULE StringTokenizer ---------------------------
(***************************************************************************)
(* StringTokenizer (BitFieldCoder.h): a functor applied by std::for_each  *)
(* to every character of a string.  It appends the characters that are    *)
(* not the delimiter to the last token, and opens a new token when a      *)
(* non-delimiter follows a delimiter (or starts the string).  The caller  *)
(* owns the token vector; the functor holds _del and the previous         *)
(* character _last.                                                        *)
(*                                                                         *)
(* Strings are sequences of one-character strings.                         *)
(***************************************************************************)
EXTENDS Integers, Sequences, SequencesExt

CONSTANTS
  Del,      \* the delimiter the tokenizer is built with
  Inputs    \* the strings fed to it

VARIABLES
  input,    \* the string std::for_each walks
  i,        \* characters already fed
  tokens,   \* _tokens: the caller's vector
  last      \* _last

vars == <<input, i, tokens, last>>

(***************************************************************************)
(* operator()(c) applied to st = [tokens, last].                            *)
(***************************************************************************)
\* Mutant: _last is never updated.
TokenizerStepNoLast(del, st, c) ==
  IF c # del
    THEN [st EXCEPT !.tokens = IF st.last = del THEN Append(@, <<c>>)
                               ELSE [@ EXCEPT ![Len(@)] = Append(@, c)]]
    ELSE st

\* Mutant: the c != _del test is missing.
TokenizerStepKeepDel(del, st, c) ==
  [tokens |-> IF st.last = del THEN Append(st.tokens, <<c>>)
              ELSE [st.tokens EXCEPT ![Len(st.tokens)] = Append(@, c)],
   last   |-> c]

TokenizerStep(del, st, c) ==
  [tokens |-> IF c = del THEN st.tokens
              ELSE IF st.last = del THEN Append(st.tokens, <<c>>)
              ELSE [st.tokens EXCEPT ![Len(st.tokens)] = Append(@, c)],
   last   |-> c]

\* StringTokenizer t(tokens, del); std::for_each(s.begin(), s.end(), t).
Tokenize(s, del) ==
  LET step(st, c) == TokenizerStep(del, st, c)
  IN FoldLeft(step, [tokens |-> <<>>, last |-> del], s).tokens

\* The characters of the strings fed.
Chars == UNION {ToSet(s) : s \in Inputs} \cup {Del}

TypeOK ==
  /\ input \in Inputs
  /\ i \in 0 .. Len(input)
  /\ tokens \in Seq(Seq(Chars \ {Del}))
  /\ last \in Chars

\* The constructor: an empty vector, _last = _del.
Init ==
  /\ input \in Inputs
  /\ i = 0
  /\ tokens = <<>>
  /\ last = Del

\* One call of operator() on the next character.
Feed ==
  /\ i < Len(input)
  /\ LET st == TokenizerStep(Del, [tokens |-> tokens, last |-> last], input[i + 1])
     IN /\ tokens' = st.tokens
        /\ last' = st.last
  /\ i' = i + 1
  /\ UNCHANGED input

Next == Feed

Spec == Init /\ [][Next]_vars

-----------------------------------------------------------------------------
(***************************************************************************)
(* Reference definition: the pieces of s between delimiters, empty ones    *)
(* included (as a split at every delimiter gives them).                    *)
(***************************************************************************)
RECURSIVE Pieces(_, _)
Pieces(s, del) ==
  IF s = <<>> THEN <<<<>>>>
  ELSE LET rest == Pieces(Tail(s), del)
       IN IF Head(s) = del THEN <<<<>>>> \o rest
          ELSE [rest EXCEPT ![1] = <<Head(s)>> \o @]

NonEmpty(p) == p # <<>>

\* After every character fed, the caller's vector holds exactly the
\* non-empty pieces of the part of the string read so far, in order: the
\* _last == _del test opens a token at the first character after a run of
\* delimiters, and only there.
TokensAreNonEmptyPieces ==
  tokens = SelectSeq(Pieces(SubSeq(input, 1, i), Del), NonEmpty)


(***************************************************************************)
(* The layout grammar of section 6 of the specification:                   *)
(* fieldDesc[,fieldDesc...] with fieldDesc = name[:start][:[-]length], so  *)
(* every ','-piece is non-empty and splits at ':' into two or three        *)
(* non-empty pieces.  The empty string is the default encoding of a        *)
(* segmentation and declares no field.                                     *)
(***************************************************************************)
Grammatical(s) ==
  \/ s = <<>>
  \/ \A k \in DOMAIN Pieces(s, ",") :
        LET sub == Pieces(Pieces(s, ",")[k], ":")
        IN Len(sub) \in {2, 3} /\ \A j \in DOMAIN sub : sub[j] # <<>>

\* What BitFieldCoder::init accepts of the descriptors the ',' tokenizer
\* produced: each splits at ':' into two or three tokens.
InitAccepts(ts) == \A k \in DOMAIN ts : Len(Tokenize(ts[k], ":")) \in {2, 3}

\* A layout string that init accepts after tokenizing it is well formed
\* (section 7: a malformed layout string fails at construction).
AcceptedOnlyIfGrammatical ==
  (i = Len(input) /\ InitAccepts(tokens)) => Grammatical(input)

=============================================================================
