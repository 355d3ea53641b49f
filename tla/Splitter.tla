------------------------------- MODULE Splitter -------------------------------
(***************************************************************************)
(* telegram/splitter.go: cutting a rendered text into messages of at most   *)
(* Limit UTF-16 units, with the tags that are open at a cut closed before   *)
(* it and opened again behind it.                                           *)
(*                                                                         *)
(* A text is a sequence of tokens: a character, or a whole tag.  Cuts are   *)
(* chosen by bytes, lengths are counted in UTF-16 units.  Tags have no      *)
(* attributes, and no cut has less room than the tag it meets.              *)
(***************************************************************************)
EXTENDS Integers, SequencesExt

CONSTANTS
    Limit,            \* TelegramTextLimit: 4096
    CloseSlack,       \* tagCloseSlack: 32
    MaxRefinements,   \* maxCutRefinements: 4
    Texts             \* rendered texts

Opens == {"<b>", "<i>"}
CloserOf == [t \in Opens |-> IF t = "<b>" THEN "</b>" ELSE "</i>"]
Closes == {CloserOf[t] : t \in Opens}
Blank == {" ", "\n"}
Letters == {"x", "emoji"}
Tokens == Opens \cup Closes \cup Blank \cup Letters

ASSUME SplitterAssumption ==
    /\ Limit \in Nat \ {0}
    /\ {CloseSlack, MaxRefinements} \subseteq Nat
    /\ Texts \subseteq Seq(Tokens)

Bytes == [t \in Tokens |-> IF t \in Opens THEN 3 ELSE IF t \in Closes \cup {"emoji"} THEN 4 ELSE 1]
Units == [t \in Tokens |-> IF t = "emoji" THEN 2 ELSE Bytes[t]]

Total(measure, s) ==
    LET upTo[k \in 0 .. Len(s)] == IF k = 0 THEN 0 ELSE upTo[k - 1] + measure[s[k]]
    IN upTo[Len(s)]

CountsRunes(s) ==   \* mutant
    Total([t \in Tokens |-> IF t = "emoji" THEN 1 ELSE Units[t]], s)

utf16Len(s) == Total(Units, s)

VARIABLES
    whole,   \* the text that was rendered
    text,    \* what is left to cut
    open,    \* the tags open where it begins, outermost first
    parts    \* the parts cut so far

splitVars == <<whole, text, open, parts>>

SplitInit(texts) ==
    /\ whole \in texts
    /\ text = whole
    /\ open = <<>>
    /\ parts = <<>>
-----------------------------------------------------------------------------
(* Tags. *)

\* A closing tag drops its opening tag with all opened after it; one without
\* an opening tag is ignored.
Scan(stack, t) ==
    CASE t \in Opens -> Append(stack, t)
      [] t \in Closes /\ (\E j \in DOMAIN stack : CloserOf[stack[j]] = t) ->
            LET j == CHOOSE j \in DOMAIN stack :
                        /\ CloserOf[stack[j]] = t
                        /\ \A l \in DOMAIN stack : l > j => CloserOf[stack[l]] # t
            IN SubSeq(stack, 1, j - 1)
      [] OTHER -> stack

\* The tags open after each prefix of s, where those of stack are open before it.
Nested(s, stack) ==
    LET after[k \in 0 .. Len(s)] == IF k = 0 THEN stack ELSE Scan(after[k - 1], s[k])
    IN after

ForgetsEarlierParts(s, stack) == Nested(s, <<>>)[Len(s)]   \* mutant

scanTags(s, stack) == Nested(s, stack)[Len(s)]

ForgetsInner(stack) ==   \* mutant
    IF stack = <<>> THEN <<>> ELSE <<CloserOf[stack[1]]>>

closingTags(stack) == [j \in DOMAIN stack |-> CloserOf[stack[Len(stack) + 1 - j]]]
-----------------------------------------------------------------------------
(* Where to cut: after how many tokens. *)

Prefix(s, k) == SubSeq(s, 1, k)

\* byteIndexAtUnit, without the tag it may end in: avoidTagSplit moves a cut
\* inside a tag to the tag's first byte.
Fitting(s, budget) ==
    CHOOSE k \in 0 .. Len(s) :
        /\ utf16Len(Prefix(s, k)) <= budget
        /\ k < Len(s) => utf16Len(Prefix(s, k + 1)) > budget

\* The bytes byteIndexAtUnit counts, those of a tag cut by the limit included.
MaxByte(s, budget) ==
    LET k == Fitting(s, budget)
    IN Total(Bytes, Prefix(s, k))
         + IF k < Len(s) /\ s[k + 1] \in Opens \cup Closes
           THEN budget - utf16Len(Prefix(s, k)) ELSE 0

\* The cut after the last occurrence of sub among the first k tokens.
CutAfter(s, k, sub) ==
    LET ends == {e \in Len(sub) .. k : SubSeq(s, e - Len(sub) + 1, e) = sub}
    IN IF ends = {} THEN 0 ELSE CHOOSE e \in ends : \A d \in ends : d <= e

Boundaries == << <<"\n", "\n">>, <<"\n">>, <<" ">> >>

\* After a paragraph, a line or a word, the first of these whose last boundary
\* that fits is not in the first half.
safeCut(s, budget) ==
    LET k == Fitting(s, budget)
        half == MaxByte(s, budget) \div 2
        good == {b \in DOMAIN Boundaries :
                    LET e == CutAfter(s, k, Boundaries[b])
                    IN e > 0 /\ Total(Bytes, Prefix(s, e - Len(Boundaries[b]))) >= half}
    IN IF k = Len(s) \/ good = {} THEN k ELSE CutAfter(s, k, Boundaries[Min(good)])

Inked(s) == {j \in DOMAIN s : s[j] \notin Blank}
TrimRight(s) == IF Inked(s) = {} THEN <<>> ELSE Prefix(s, Max(Inked(s)))
TrimLeft(s) == IF Inked(s) = {} THEN <<>> ELSE SubSeq(s, Min(Inked(s)), Len(s))

AtLeastOne(n) == IF n < 1 THEN 1 ELSE n

\* The part that prefix, head and the tags to close make.
PartOf(head) == open \o head \o closingTags(scanTags(head, open))

\* Reopening and closing tags may make a part too long: the budget shrinks by
\* what is over, a few times.
Budget[i \in 0 .. MaxRefinements] ==
    IF i = 0
    THEN AtLeastOne(Limit - utf16Len(open) - utf16Len(closingTags(open)) - CloseSlack)
    ELSE LET b == Budget[i - 1]
             over == utf16Len(PartOf(TrimRight(Prefix(text, safeCut(text, b))))) - Limit
         IN IF over <= 0 THEN b ELSE AtLeastOne(b - over)

\* One round of SplitMessage.  A budget below one character takes it anyway.
Cut ==
    /\ text # <<>>
    /\ IF utf16Len(open \o text) <= Limit
       THEN /\ parts' = Append(parts, open \o text)
            /\ text' = <<>>
            /\ UNCHANGED open
       ELSE LET idx == safeCut(text, Budget[MaxRefinements])
                cut == AtLeastOne(idx)
                head == IF idx = 0 THEN Prefix(text, 1) ELSE TrimRight(Prefix(text, idx))
            IN /\ parts' = Append(parts, PartOf(head))
               /\ open' = scanTags(head, open)
               /\ text' = TrimLeft(SubSeq(text, cut + 1, Len(text)))
    /\ UNCHANGED whole
-----------------------------------------------------------------------------
(* What a reader of the messages relies on. *)

\* No cut tears a tag: what the texts to be explored must allow.
RoomForTags == text # <<>> => \A t \in Opens \cup Closes : Budget[MaxRefinements] >= Units[t]

\* Every closing tag closes the innermost open one, and nothing stays open.
Balanced(s) ==
    LET tags == Nested(s, <<>>)
    IN /\ tags[Len(s)] = <<>>
       /\ \A j \in DOMAIN s :
             s[j] \in Closes => tags[j - 1] # <<>> /\ CloserOf[Last(tags[j - 1])] = s[j]

\* The letters of s, each with the tags it stands in.
Styled(s, stack) ==
    LET tags == Nested(s, stack)
        upTo[k \in 0 .. Len(s)] ==
            IF k = 0 THEN <<>>
            ELSE IF s[k] \in Letters THEN Append(upTo[k - 1], <<s[k], tags[k - 1]>>)
            ELSE upTo[k - 1]
    IN upTo[Len(s)]

\* No part is longer than the messenger takes, emoji and the tags added at its
\* cuts counted, and no cut is so short that it would tear a tag
\* (splitter.go:8-10, 22-26).
PartsFit ==
    /\ RoomForTags
    /\ \A p \in Range(parts) : Total(Units, p) <= Limit

\* Of a well-formed text every part is well-formed: none is rejected for an
\* unclosed tag (splitter.go:23-26).
PartsBalanced == Balanced(whole) => \A p \in Range(parts) : Balanced(p)

\* The parts together show all letters of the text, in order and in their
\* formatting, the text still to be cut included (splitter.go:22-26).
NothingLost ==
    Styled(whole, <<>>)
        = FlattenSeq([j \in DOMAIN parts |-> Styled(parts[j], <<>>)]) \o Styled(text, open)
=============================================================================
