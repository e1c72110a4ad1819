------------------------------ MODULE Candidate ------------------------------
(***************************************************************************)
(* How a candidate becomes an assertion: the grammar a block gives cvc5    *)
(* (SyGuSGenerater), the answer read back (SmtFunctionParser) and printed  *)
(* as SystemVerilog (SygusExpr).  One parser reads the answers of every    *)
(* refinement pass.                                                        *)
(*                                                                         *)
(* A name is a stem and the numbers at its end: d_2 may be a signal of its *)
(* own or the signal d two cycles later.  A property is a term over        *)
(* SystemVerilog's operators with the delay after its |->.                 *)
(***************************************************************************)
EXTENDS Integers, Sequences, FiniteSets, FiniteSetsExt

CONSTANTS
    BlockSignals,   \* the block's: [name, kind, width, signed]
    Latencies,      \* --latency
    MaxDepth        \* bound on the terms cvc5 answers with

Identifiers == [stem : STRING, digits : Seq(Nat)]

\* A latency is a number of cycles, none for a block that is not under LTL.
ASSUME CandidateAssumption ==
    /\ \A s \in BlockSignals : s.name \in Identifiers
    /\ Latencies \subseteq Nat
    /\ MaxDepth \in Nat \ {0}

INSTANCE Terms WITH Names <- Identifiers

VARIABLES
    latency, predicates,   \* the block's options
    at,                    \* where the block is
    body,                  \* of the answer
    member,                \* the parser's own latency
    function,              \* what the parser made of it: [body, latency]
    property               \* what is given to EBMC

candidateVars == <<latency, predicates, at, body, member, function, property>>

None == <<>>

CandidateInit ==
    /\ latency \in Latencies /\ predicates \in {"off", "unsigned"}
    /\ at = "solve" /\ member = 0
    /\ body = None /\ function = None /\ property = None

------------------------------------------------------------------------------
(* The grammar.                                                             *)

\* A signal's name now or, with a latency, then.
NameAt(s, cycle) ==
    IF cycle = 0 THEN s.name
    ELSE [stem |-> s.name.stem, digits |-> Append(s.name.digits, cycle)]

TermAt(s, cycle) == <<"name", NameAt(s, cycle)>>

\* sameTypeSignals: the vectors of a width.
SameWidth(w) == {s \in BlockSignals : s.kind = "bits" /\ s.width = w}
Widths == {w \in {s.width : s \in BlockSignals} : Cardinality(SameWidth(w)) > 1}

KeyTerms(cycle) == {TermAt(s, cycle) : s \in {t \in BlockSignals : t.kind = "boolean"}}

\* Vectors are compared by name; the arithmetic over them (MixBv) is in the
\* grammar too, where no rule that is used leads to it.
Comparisons(cycle) ==
    IF predicates = "off" THEN {}
    ELSE UNION {{<<op, TermAt(s, cycle), TermAt(t, cycle)>> :
                   op \in {"=", "bvult", "bvule"}, s \in SameWidth(w), t \in SameWidth(w)} :
                w \in Widths}

\* Atom is denied the equality of atoms under LTL, AtomX is not.
Connectives(cycle) ==
    {"and", "or"} \union (IF latency > 0 /\ cycle = 0 THEN {} ELSE {"="})

\* What Atom (or AtomX) derives in at most n levels.
Atoms(cycle) ==
    Derived(KeyTerms(cycle), Comparisons(cycle), {"not"}, Connectives(cycle), MaxDepth)

\* Expr: an atom or an implication between atoms.  ExprX: an implication whose
\* consequence is all now or all then.
Implications(cycle) == {"=>"} \X Atoms(0)[MaxDepth - 1] \X Atoms(cycle)[MaxDepth - 1]
Answers ==
    Implications(0) \union IF latency = 0 THEN Atoms(0)[MaxDepth] ELSE Implications(latency)

\* cvc5 answers.  (That it gives up ends the block, see Block.)
Solve ==
    /\ at = "solve"
    /\ at' = "parse"
    /\ body' \in Answers
    /\ UNCHANGED <<latency, predicates, member, function, property>>

------------------------------------------------------------------------------
(* The parser.                                                              *)

\* cleanLatency takes a name for a later state's by its last digits.
IsLater(name) == name.digits # <<>>
Suffix(name) == name.digits[Len(name.digits)]
Cleaned(name) ==
    IF IsLater(name)
    THEN [stem |-> name.stem, digits |-> SubSeq(name.digits, 1, Len(name.digits) - 1)]
    ELSE name

\* Slip: the latency of the last answer is kept.
Kept(n) == n
\* A parse starts over.
Reset(n) == 0

\* The last name that looks like a later state's sets the latency.
LatencyRead(t) ==
    LET later == {i \in DOMAIN NameList[t] : IsLater(NameList[t][i])}
    IN  IF later = {} THEN Reset(member) ELSE Suffix(NameList[t][Max(later)])

\* parseSmtFunction: names lose their suffix under LTL only; names in the
\* signature are left alone.
Cleaning == [n \in Identifiers |-> IF latency > 0 THEN Cleaned(n) ELSE n]

Parse ==
    /\ at = "parse"
    /\ at' = "render"
    /\ member' = IF latency > 0 THEN LatencyRead(body) ELSE Reset(member)
    /\ function' = [body |-> Renamed(Cleaning)[body],
                    latency |-> IF latency > 0 THEN member' ELSE 0]
    /\ UNCHANGED <<latency, predicates, body, property>>

------------------------------------------------------------------------------
(* The printer.                                                             *)

Verilog ==
    [op \in SmtBinary |->
       CASE op = "and"   -> "&&"
         [] op = "or"    -> "||"
         [] op = "=>"    -> "|->"
         [] op = "="     -> "=="
         [] op = "bvult" -> "<"
         [] op = "bvule" -> "<="]

\* The operands of these are wrapped in $unsigned.
Cast(op) == op \in {"bvult", "bvule", "bvugt", "bvuge"}
Operand(op, t) == IF Cast(op) THEN <<"$unsigned", t>> ELSE t

Printed[t \in SmtTerms] ==
    IF IsLeaf(t) THEN t
    ELSE IF Len(t) = 2 THEN <<"!", Printed[t[2]]>>
    ELSE <<Verilog[t[1]], Operand(t[1], Printed[t[2]]), Operand(t[1], Printed[t[3]])>>

\* getBodyVerilogExpr: the delay goes after the arrow; without an arrow there
\* is no place for it.
Render ==
    /\ at = "render"
    /\ at' = "check"
    /\ property' =
         IF function.latency # 0 /\ function.body[1] # "=>" THEN [throws |-> TRUE]
         ELSE [throws |-> FALSE, delay |-> function.latency, expr |-> Printed[function.body]]
    /\ UNCHANGED <<latency, predicates, body, member, function>>

\* EBMC refuted the property; the loop asks cvc5 again.
Again ==
    /\ at = "check"
    /\ at' = "solve"
    /\ body' = None /\ function' = None /\ property' = None
    /\ UNCHANGED <<latency, predicates, member>>

CandidateNext == Solve \/ Parse \/ Render \/ Again

CandidateSpec == CandidateInit /\ [][CandidateNext]_candidateVars

------------------------------------------------------------------------------
(* What they mean.  A place is a name and a cycle; e gives places values.   *)

IsCurrent(name) == \E s \in BlockSignals : s.name = name

\* The places a candidate speaks of.
LaterOf(name) == CHOOSE s \in BlockSignals : NameAt(s, latency) = name
PlaceOf(name) ==
    IF IsCurrent(name) THEN <<name, 0>> ELSE <<LaterOf(name).name, latency>>
PlacesMeant == {PlaceOf(n) : n \in NamesOf(body)}
CandidateHolds(e) == Holds(body, [n \in Identifiers |-> e[PlaceOf(n)]])

Declared(name) == CHOOSE s \in BlockSignals : s.name = name
Signed(t) == IsLeaf(t) /\ Declared(t[2]).signed
Half(t) == 2 ^ (Declared(t[2]).width - 1)
TwosComplement(v, half) == IF v >= half THEN v - 2 * half ELSE v

VerilogTrue(op, v, w) ==
    \/ op = "&&" /\ v = 1 /\ w = 1
    \/ op = "||" /\ (v = 1 \/ w = 1)
    \/ op = "|->" /\ (v = 1 => w = 1)
    \/ op = "==" /\ v = w
Less(op, v, w) ==
    \/ op = "<" /\ v < w
    \/ op = "<=" /\ v =< w

\* SystemVerilog: a comparison is signed when both operands are.
Evaluated(env) ==
    LET value[t \in AllTerms] ==
          IF IsLeaf(t) THEN env[t[2]]
          ELSE IF Len(t) = 2
          THEN IF t[1] = "!" THEN Bit(value[t[2]] = 0) ELSE value[t[2]]
          ELSE Bit(\/ VerilogTrue(t[1], value[t[2]], value[t[3]])
                   \/ IF Signed(t[2]) /\ Signed(t[3])
                      THEN Less(t[1], TwosComplement(value[t[2]], Half(t[2])),
                                      TwosComplement(value[t[3]], Half(t[3])))
                      ELSE Less(t[1], value[t[2]], value[t[3]]))
    IN  value

\* The places a property speaks of: what follows the arrow is `delay' cycles
\* later.
EnvAt(e, cycle) == [n \in Identifiers |-> e[<<n, cycle>>]]
PlacesAt(t, cycle) == {<<n, cycle>> : n \in NamesOf(t)}
IsArrow(t) == t[1] = "|->"
PlacesStated ==
    LET t == property.expr
    IN  IF IsArrow(t) THEN PlacesAt(t[2], 0) \union PlacesAt(t[3], property.delay)
        ELSE PlacesAt(t, 0)
PropertyHolds(e) ==
    LET t == property.expr
    IN  IF IsArrow(t)
        THEN Evaluated(EnvAt(e, 0))[t[2]] = 1 => Evaluated(EnvAt(e, property.delay))[t[3]] = 1
        ELSE Evaluated(EnvAt(e, 0))[t] = 1

\* Every value of the places a candidate speaks of.
ValuesAt(p) ==
    IF Declared(p[1]).kind = "boolean" THEN 0 .. 1 ELSE 0 .. 2 ^ Declared(p[1]).width - 1
Assignments ==
    {e \in [PlacesMeant -> UNION {ValuesAt(p) : p \in PlacesMeant}] :
       \A p \in PlacesMeant : e[p] \in ValuesAt(p)}

SameMeaning ==
    /\ ~property.throws
    /\ PlacesStated = PlacesMeant
    /\ \A e \in Assignments : PropertyHolds(e) <=> CandidateHolds(e)

\* The property EBMC checks says what cvc5's candidate says, in every pass and
\* whichever answer came before.  The exception is LTL with a signal whose own
\* name ends in digits: as a current state's name it is taken for a later
\* state's of another signal.
PropertyMeansCandidate ==
    at = "check" =>
      \/ SameMeaning
      \/ latency > 0 /\ \E n \in NamesOf(body) : IsCurrent(n) /\ IsLater(n)

\* "The property has temporal latency iff its BODY actually references such a
\* name", a next-state name (SmtFunctionParser.cpp:54-56).
LatencyIffNextState ==
    at = "check" =>
      (function.latency # 0 <=> \E n \in NamesOf(body) : ~IsCurrent(n))
==============================================================================
