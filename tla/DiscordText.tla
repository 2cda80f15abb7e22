----------------------------- MODULE DiscordText -----------------------------
(***************************************************************************)
(* renderBounded of internal/notification/discord.go: how a database name, *)
(* a file name and the location of the object are put into a field of the  *)
(* Discord embed, whose length Discord counts in UTF-16 units.             *)
(*                                                                         *)
(* One step is one turn of the loop.  The strings.Builder is a sequence of *)
(* bytes, of which it is known to which rune of the input and to which     *)
(* byte of its rendering they belong.                                      *)
(***************************************************************************)
EXTENDS Integers, Sequences, FiniteSetsExt

CONSTANTS
    Limit,      \* maxFieldValueUTF16
    MaxRunes    \* bound: runes in a name

\* The longest escape and the ellipsis find room.
ASSUME LimitAssumption == Limit \in Nat /\ Limit >= 8 /\ MaxRunes \in Nat

VARIABLES
    s,          \* the name
    at,         \* the rune the loop takes next
    b,          \* what is in the builder
    units,      \* UTF-16 units of the rendered runes
    cut,        \* the length of the builder up to which an ellipsis still fits
    text        \* the result, <<>> before there is one

vars == <<s, at, b, units, cut, text>>

(***************************************************************************)
(* Kinds of runes, by what the code tells apart and by their size:         *)
(*   ascii, kana, emoji   literal everywhere; 1, 3 and 4 bytes             *)
(*   meta                 Markdown characters but the backquote, backslash *)
(*                        included                                         *)
(*   tick                 the backquote, which would end inline code       *)
(*   newline              \n, \r and \t                                    *)
(*   control              other control characters, U+2028 and U+2029      *)
(***************************************************************************)
Runes == {"ascii", "kana", "emoji", "meta", "tick", "newline", "control"}

\* isSafeCode.
Safe == \A i \in 1..Len(s) : s[i] \notin {"tick", "newline", "control"}

\* renderIdentityRune: is the rune written as an escape, and in how many bytes?
Escaped(r) == ~Safe /\ r \in {"meta", "tick", "newline", "control"}

Bytes(r) ==
    IF Escaped(r) THEN (IF r = "control" THEN 6 ELSE 2)
    ELSE CASE r = "kana" -> 3 [] r = "emoji" -> 4 [] OTHER -> 1

RuneUTF16Units(r) == IF r = "emoji" THEN 2 ELSE 1

\* An escape contains only ASCII.
Units(r) == IF Escaped(r) THEN Bytes(r) ELSE RuneUTF16Units(r)

Fragment(i) == [k \in 1..Bytes(s[i]) |-> <<i, k>>]

Mark     == IF Safe THEN <<<<0, 1>>>> ELSE <<>>
Ellipsis == <<<<-1, 1>>, <<-1, 2>>, <<-1, 3>>>>

\* What the runes may take, the marks aside.
Room == IF Safe THEN Limit - 2 ELSE Limit

Init ==
    /\ s \in UNION {[1..n -> Runes] : n \in 1..MaxRunes}
    /\ at = 1 /\ b = Mark /\ units = 0 /\ cut = Len(Mark) /\ text = <<>>

\* The rune does not fit: the rendering ends at the last place with room for an
\* ellipsis.
Cut ==
    /\ text = <<>> /\ at <= Len(s)
    /\ units + Units(s[at]) > Room
    /\ text' = SubSeq(b, 1, cut) \o Ellipsis \o Mark
    /\ UNCHANGED <<s, at, b, units, cut>>

\* The place of the cut kept in units.
WriteCountingUnits ==
    /\ text = <<>> /\ at <= Len(s)
    /\ units + Units(s[at]) <= Room
    /\ b' = b \o Fragment(at)
    /\ units' = units + Units(s[at])
    /\ cut' = IF units' <= Room - 1 THEN Len(Mark) + units' ELSE cut
    /\ at' = at + 1
    /\ UNCHANGED <<s, text>>

Write ==
    /\ text = <<>> /\ at <= Len(s)
    /\ units + Units(s[at]) <= Room
    /\ b' = b \o Fragment(at)
    /\ units' = units + Units(s[at])
    /\ cut' = IF units' <= Room - 1 THEN Len(b') ELSE cut
    /\ at' = at + 1
    /\ UNCHANGED <<s, text>>

Finish ==
    /\ text = <<>> /\ at = Len(s) + 1
    /\ text' = b \o Mark
    /\ UNCHANGED <<s, at, b, units, cut>>

Next == Cut \/ Write \/ Finish

Spec == Init /\ [][Next]_vars

-----------------------------------------------------------------------------
(* Correctness.  The reference takes the name as a whole.                  *)

\* UTF-16 units of a fragment, from its bytes: an escape is ASCII, and of the runes
\* those with a surrogate pair have four bytes.
UnitsWritten(i) ==
    IF Escaped(s[i]) THEN Len(Fragment(i)) ELSE IF Len(Fragment(i)) = 4 THEN 2 ELSE 1

\* The fragments of the first n runes, whole, and the UTF-16 units they take.
Fragments[n \in 0..Len(s)] ==
    IF n = 0 THEN <<>> ELSE Fragments[n - 1] \o Fragment(n)

UnitsOf[n \in 0..Len(s)] ==
    IF n = 0 THEN 0 ELSE UnitsOf[n - 1] + UnitsWritten(n)

\* The rendering of the first n runes with what stands around it.
Rendering(n) ==
    Mark \o Fragments[n] \o (IF n = Len(s) THEN <<>> ELSE Ellipsis) \o Mark

UnitsShown(n) == UnitsOf[n] + 2 * Len(Mark) + (IF n = Len(s) THEN 0 ELSE 1)

\* The most runes that can be shown within the limit.
MostRunes == Max({n \in 0..Len(s) : UnitsShown(n) <= Limit})

\* The rune could end the field's inline code or its line where it is written raw.
Breaking(r) == r \in {"tick", "newline", "control"}

\* A field shows as many whole characters of a name as Discord allows, with an ellipsis
\* exactly when some are missing: no escape, no surrogate pair and no multi-byte
\* character is cut in two, whatever mixture of them stands at the limit (the two ends
\* cut and b); and what could break the field is neither inside marks nor raw.
ShowsTheMost ==
    text # <<>> =>
        /\ text = Rendering(MostRunes)
        /\ \A j \in 1..Len(text) :
             text[j][1] \in 1..Len(s) /\ Breaking(s[text[j][1]])
                => text[1] # <<0, 1>> /\ Bytes(s[text[j][1]]) > 1
=============================================================================
