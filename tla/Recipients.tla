------------------------------ MODULE Recipients ------------------------------
(***************************************************************************)
(* A lead list on its way to Email rows.  The browser normalizes the cells *)
(* of the file's email column (dedupeEmails), announces how many addresses *)
(* it found and submits them; the API normalizes what it receives again    *)
(* (normalizeRecipients) and makes a row of each.  The two are the same    *)
(* loop written twice, in TypeScript files that share no code.             *)
(*                                                                         *)
(* A value is an address or junk, in any case, as the spreadsheet or mail  *)
(* client wrote it: with "mailto:" before it, in angle brackets, or both.  *)
(***************************************************************************)
EXTENDS Naturals, Sequences, FiniteSets

CONSTANTS
  Addresses,  \* what matches the email pattern
  Junk,       \* what does not
  MaxValues   \* bound on the length of the list

ASSUME RecipientsAssumption ==
  /\ Junk \notin Addresses
  /\ MaxValues \in Nat

Value == [address : Addresses \cup {Junk}, upper : BOOLEAN,
          angle : BOOLEAN, mailto : BOOLEAN]

VARIABLES
  stage,           \* who runs the loop: "browser", "server"; or "created"
  values,          \* the loop's input
  i,               \* values seen so far
  seen,            \* the loop's set of normalized values
  recipients,      \* the loop's result, in order
  invalid,         \* how many values were not an address
  duplicateCount,  \* how many values were there already
  announced        \* "N valid email addresses detected"

vars == <<stage, values, i, seen, recipients, invalid, duplicateCount, announced>>

-----------------------------------------------------------------------------
(* normalizeEmailAddress, and normalizeEmail in the browser *)

IsAddress(v) == v.address # Junk

\* "mailto:" goes only from the front of the trimmed value, before the angle
\* brackets go, so inside them it stays.
NormalizeEmailAddress(v) ==
  [v EXCEPT !.upper = FALSE, !.mailto = v.angle /\ v.mailto, !.angle = FALSE]

\* Mutant: the browser compares what the file says.
BugBrowserNormalize(v) == v

BrowserNormalize(v) == NormalizeEmailAddress(v)

Normalize(v) ==
  IF stage = "browser" THEN BrowserNormalize(v) ELSE NormalizeEmailAddress(v)

-----------------------------------------------------------------------------
(* The loop *)

Current == values[i + 1]

\* Mutant: a value that is not an address counts as a duplicate of junk.
BugCountInvalid(v) == FALSE

CountInvalid(v) == ~IsAddress(v)

\* Mutant: the value as written is remembered instead of the normalized one.
BugRemembered(v) == v

Remembered(v) == Normalize(v)

Turn ==
  /\ stage \in {"browser", "server"}
  /\ i < Len(values)
  /\ i' = i + 1
  /\ \/ /\ CountInvalid(Current)
        /\ invalid' = invalid + 1
        /\ UNCHANGED <<seen, recipients, duplicateCount>>
     \/ /\ ~CountInvalid(Current)
        /\ Normalize(Current) \in seen
        /\ duplicateCount' = duplicateCount + 1
        /\ UNCHANGED <<seen, recipients, invalid>>
     \/ /\ ~CountInvalid(Current)
        /\ Normalize(Current) \notin seen
        /\ seen' = seen \cup {Remembered(Current)}
        /\ recipients' = Append(recipients, Normalize(Current))
        /\ UNCHANGED <<invalid, duplicateCount>>
  /\ UNCHANGED <<stage, values, announced>>

\* Mutant: the counter outlives the call.
BugFreshCount == duplicateCount

FreshCount == 0

\* The browser shows the result; submit sends it if it is not empty.
Submit ==
  /\ stage = "browser"
  /\ i = Len(values)
  /\ recipients # <<>>
  /\ stage' = "server"
  /\ values' = recipients
  /\ announced' = Len(recipients)
  /\ i' = 0
  /\ seen' = {}
  /\ recipients' = <<>>
  /\ invalid' = 0
  /\ duplicateCount' = FreshCount

\* createWithEmails makes one row of each recipient; an empty list is a 400.
Create ==
  /\ stage = "server"
  /\ i = Len(values)
  /\ recipients # <<>>
  /\ stage' = "created"
  /\ UNCHANGED <<values, i, seen, recipients, invalid, duplicateCount, announced>>

Init ==
  /\ stage = "browser"
  /\ values \in UNION {[1..n -> Value] : n \in 0..MaxValues}
  /\ i = 0
  /\ seen = {}
  /\ recipients = <<>>
  /\ invalid = 0
  /\ duplicateCount = 0
  /\ announced = 0

Next == Turn \/ Submit \/ Create

Spec == Init /\ [][Next]_vars
-----------------------------------------------------------------------------
(* Properties *)

\* Every variable has its type, and every value of the input is counted once,
\* in the result, as invalid or as a duplicate: the statistics add up.
TypeOK ==
  /\ stage \in {"browser", "server", "created"}
  /\ values \in Seq(Value)
  /\ i \in 0..Len(values)
  /\ seen \subseteq Value
  /\ recipients \in Seq(Value)
  /\ invalid \in Nat
  /\ duplicateCount \in Nat
  /\ announced \in Nat
  /\ Len(recipients) + invalid + duplicateCount = i

\* The definition the loop computes: the addresses of the values seen so far,
\* normalized, each at its first place.
FirstAt(n) ==
  /\ IsAddress(values[n])
  /\ \A m \in 1..(n - 1) :
       IsAddress(values[m]) => Normalize(values[m]) # Normalize(values[n])

\* The list has every address once ("removes duplicate recipients",
\* README.md:57), in the order of the file, which sequenceNumber keeps.
InFileOrder ==
  stage # "created" =>
    LET firsts == {n \in 1..i : FirstAt(n)}
        rank(n) == Cardinality({m \in firsts : m <= n})
    IN /\ Len(recipients) = Cardinality(firsts)
       /\ \A n \in firsts : recipients[rank(n)] = Normalize(values[n])

\* The API schedules as many emails as the browser announced: normalizing
\* twice is normalizing once, unless an address still has the "mailto:" that
\* stood inside its brackets.
AnnouncedIsScheduled ==
  stage # "browser" /\ (\A n \in 1..Len(values) : ~values[n].mailto) =>
    /\ invalid = 0 /\ duplicateCount = 0
    /\ stage = "created" => Len(recipients) = announced
===============================================================================
