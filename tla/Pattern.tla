------------------------------- MODULE Pattern -------------------------------
(***************************************************************************)
(* A line of stock on its way from the text that an administrator pastes   *)
(* to the message of a customer: the page splits it by the pattern that it *)
(* knows, the import normalizes the values, and a delivery, much later,    *)
(* writes them by the pattern that the product has by then.  A text is a   *)
(* sequence of signs; in a pattern, a key stands where {{key}}, or the     *)
(* bare word of the legacy form, is written.                               *)
(***************************************************************************)
EXTENDS Integers, Sequences, SequencesExt

CONSTANTS
    Signs,      \* the characters of a text, Space and Dash among them
    Space,
    Dash,
    FormKeys,   \* the keys of the product's fields
    Needed,     \* the required ones
    Forms,      \* patterns that administrators write, good or bad
    MaxLine     \* bound: length of a pasted line

VARIABLES
    pattern,    \* the pattern of the product
    known,      \* the pattern on the page of the administrator
    concealed,  \* keys that are not visibleToCustomer
    typed,      \* the line that was pasted, and the pattern it was read by
    values,     \* the payload: values[k] is <<>> for a field without one
    delivered   \* the text that was sent, and the pattern it was written by

patternVars == <<pattern, known, concealed, typed, values, delivered>>

ASSUME PatternConstants ==
    /\ Needed \subseteq FormKeys /\ FormKeys \cap Signs = {}
    /\ Forms \subseteq Seq(Signs \cup FormKeys) /\ MaxLine \in Nat

Texts == BoundedSeq(Signs, MaxLine)
Nowhere == [text |-> <<>>, by |-> <<>>]
NoValues == [k \in FormKeys |-> <<>>]

Trim(text) ==
    LET solid == {n \in DOMAIN text : text[n] # Space}
    IN IF solid = {} THEN <<>> ELSE SubSeq(text, Min(solid), Max(solid))
-----------------------------------------------------------------------------
(* Patterns.                                                               *)

KeyPlaces(form) == {p \in DOMAIN form : form[p] \in FormKeys}
KeysIn(form) == {form[p] : p \in KeyPlaces(form)}

(* The key before and the key after place p: 0 and the place past the end  *)
(* where there is none.                                                    *)
Before(form, p) == Max({0} \cup {q \in KeyPlaces(form) : q < p})
After(form, p) == Min({Len(form) + 1} \cup {q \in KeyPlaces(form) : p < q})
IsLast(form, p) == After(form, p) > Len(form)

(* What follows the key at place p; at 0, what comes before all of them.   *)
Literal(form, p) == SubSeq(form, p + 1, After(form, p) - 1)

(* parseInventoryPatternTemplate() and what validateTemplate() refuses.    *)
Parses(form) ==
    /\ KeyPlaces(form) # {}
    /\ \A p \in KeyPlaces(form) : ~IsLast(form, p) => Literal(form, p) # <<>>
Valid(form) ==
    /\ Parses(form) /\ Needed \subseteq KeysIn(form)
    /\ \A p, q \in KeyPlaces(form) : form[p] = form[q] => p = q

(* A product, and a page that shows it, has a pattern it may have          *)
(* (validateTemplate()).                                                   *)
PatternTypeOK == \A form \in {pattern, known} : form \in Forms /\ Valid(form)

(* formatInventoryPatternPayload()                                         *)
Formatted(row, form) ==
    FlattenSeq([n \in DOMAIN form |->
        IF form[n] \in FormKeys THEN row[form[n]] ELSE <<form[n]>>])
-----------------------------------------------------------------------------
(* parseInventoryPatternLine(): the places of part in text; 0 is nowhere.  *)
PlacesOf(part, text, from) ==
    {p \in from..(Len(text) + 1 - Len(part)) :
        SubSeq(text, p, p + Len(part) - 1) = part}

(* Mutated: the last place of a separator counts.                          *)
PlaceLast(part, text, from) ==
    IF PlacesOf(part, text, from) = {} THEN 0
    ELSE Max(PlacesOf(part, text, from))
Place(part, text, from) ==
    IF PlacesOf(part, text, from) = {} THEN 0
    ELSE Min(PlacesOf(part, text, from))

(* Where the value of the key at place p and the literal after it begin,   *)
(* given where the literal before it does; both are 0 when it is missing.  *)
ValueFrom(text, form, p, last) ==
    LET literal == Literal(form, Before(form, p))
    IN IF Before(form, p) = 0
       THEN IF IsPrefix(literal, text) THEN Len(literal) + 1 ELSE 0
       ELSE IF last = 0 THEN 0 ELSE last + Len(literal)
ValueTo(text, form, p, from) ==
    LET literal == Literal(form, p)
    IN IF ~IsLast(form, p) THEN Place(literal, text, from)
       ELSE IF IsSuffix(literal, text) THEN Len(text) - Len(literal) + 1
       ELSE 0
PartAt(text, form, p, last) ==
    LET from == ValueFrom(text, form, p, last)
        to == ValueTo(text, form, p, from)
    IN IF from = 0 \/ to < from THEN <<0, 0>> ELSE <<from, to>>

(* The parts of a line, each found from the end of the one before it.      *)
Split(text, form) ==
    LET part[p \in KeyPlaces(form)] ==
            PartAt(text, form, p, IF Before(form, p) = 0 THEN 0
                                  ELSE part[Before(form, p)][2])
    IN part

(* The object of the entries after normalize(): one row, or none.          *)
RowsOf(text, form) ==
    LET part == Split(text, form)
        value(p) == Trim(SubSeq(text, part[p][1], part[p][2] - 1))
        row == [k \in FormKeys |->
                   IF k \in KeysIn(form)
                   THEN value(CHOOSE p \in KeyPlaces(form) : form[p] = k)
                   ELSE <<>>]
    IN IF (\E p \in KeyPlaces(form) : part[p] = <<0, 0>>)
          \/ row = NoValues \/ \E k \in Needed : row[k] = <<>>
       THEN {} ELSE {row}

(* Mutated: every value of the pattern is written.                         *)
ShownAll(form) == TRUE
AllShown(form) == KeysIn(form) \cap concealed = {}

(* formatCustomerInventoryPayload()                                        *)
Rendered(row, form) ==
    LET seen == {p \in KeyPlaces(form) : form[p] \notin concealed}
    IN IF AllShown(form) THEN Formatted(row, form)
       ELSE FlattenSeq([p \in DOMAIN form |->
                IF p \notin seen THEN <<>>
                ELSE IF p = Min(seen) THEN row[form[p]]
                ELSE <<Dash, Dash, Dash, Dash>> \o row[form[p]]])
-----------------------------------------------------------------------------
PatternInit ==
    /\ pattern \in {f \in Forms : Valid(f)} /\ known = pattern
    /\ concealed \in SUBSET FormKeys
    /\ typed = Nowhere /\ values = NoValues /\ delivered = Nowhere

(* update(): with stock, fields keep their visibility, the pattern may     *)
(* change.                                                                 *)
SavePattern ==
    /\ \E form \in Forms : Valid(form) /\ pattern' = form
    /\ UNCHANGED <<known, concealed, typed, values, delivered>>

LoadProducts ==
    /\ known' = pattern
    /\ UNCHANGED <<pattern, concealed, typed, values, delivered>>

(* parsePatternRows() and commit(), for one line.                          *)
PasteLine ==
    /\ typed = Nowhere
    /\ \E line \in Texts :
          /\ values' \in RowsOf(Trim(line), known)
          /\ typed' = [text |-> line, by |-> known]
    /\ UNCHANGED <<pattern, known, concealed, delivered>>

(* renderDelivery()                                                        *)
SendValues ==
    /\ typed # Nowhere /\ delivered = Nowhere
    /\ delivered' = [text |-> Trim(Rendered(values, pattern)), by |-> pattern]
    /\ UNCHANGED <<pattern, known, concealed, typed, values>>

PatternNext == SavePattern \/ LoadProducts \/ PasteLine \/ SendValues

Solid(text) ==
    FlattenSeq([n \in DOMAIN text |->
        IF text[n] = Space THEN <<>> ELSE <<text[n]>>])

(* A customer is sent what was pasted, but for the blanks around values,   *)
(* as long as the product keeps its pattern, however old the page was.     *)
(* What is concealed has no influence on the message under any pattern.    *)
(* And no value but the last holds the separator that follows it: "decoded *)
(* without guessing which value belongs to a key" (shared/index.ts:147).   *)
SentAsPasted ==
    /\ delivered # Nowhere /\ delivered.by = typed.by
       /\ AllShown(typed.by) => Solid(delivered.text) = Solid(typed.text)
    /\ delivered # Nowhere =>
          \A row \in [FormKeys -> BoundedSeq(Signs, 1)] :
              LET other == [k \in FormKeys |-> IF k \in concealed THEN row[k]
                                               ELSE values[k]]
              IN delivered.text = Trim(Rendered(other, delivered.by))
    /\ typed # Nowhere =>
          \A p \in KeyPlaces(typed.by) :
              ~IsLast(typed.by, p) =>
                 PlacesOf(Literal(typed.by, p), values[typed.by[p]], 1) = {}
=============================================================================
