-------------------------------- MODULE Terms --------------------------------
(***************************************************************************)
(* Terms of SyGuS and of SystemVerilog as tuples: <<"name", n>>, or an     *)
(* operator and its arguments.  A Boolean is 0 or 1, a bit-vector the      *)
(* number it stands for.                                                   *)
(***************************************************************************)
EXTENDS Integers, Sequences

CONSTANTS
    Names,       \* what a term may speak of
    MaxDepth     \* bound on the operators inside one another in a SyGuS term

\* From `base', `more' and the operators: what has at most n operators inside
\* one another, for each n, where `more' counts as one.
Derived(base, more, unary, binary, depth) ==
    LET upTo[n \in 0 .. depth] ==
          base \union
          IF n = 0 THEN {}
          ELSE LET below == upTo[n - 1]
               IN  more \union (unary \X below) \union (binary \X below \X below)
    IN  upTo

Leaves == {"name"} \X Names
IsLeaf(t) == t[1] = "name"

SmtBinary == {"and", "or", "=>", "=", "bvult", "bvule"}
VerilogBinary == {"&&", "||", "|->", "==", "<", "<="}

SmtTerms == Derived(Leaves, {}, {"not"}, SmtBinary, MaxDepth)[MaxDepth]

\* With those of SystemVerilog, where any operand may have a cast.
AllTerms ==
    Derived(Leaves, {}, {"not", "!", "$unsigned"}, SmtBinary \union VerilogBinary,
            2 * MaxDepth)[2 * MaxDepth]

\* The names of a term, from left to right.
NameList[t \in AllTerms] ==
    IF IsLeaf(t) THEN <<t[2]>>
    ELSE IF Len(t) = 2 THEN NameList[t[2]] ELSE NameList[t[2]] \o NameList[t[3]]

NamesOf(t) == {NameList[t][i] : i \in DOMAIN NameList[t]}

\* Terms with other names.
Renamed(to) ==
    LET renamed[t \in SmtTerms] ==
          IF IsLeaf(t) THEN <<"name", to[t[2]]>>
          ELSE IF Len(t) = 2 THEN <<t[1], renamed[t[2]]>>
          ELSE <<t[1], renamed[t[2]], renamed[t[3]]>>
    IN  renamed

Bit(b) == IF b THEN 1 ELSE 0

True(op, v, w) ==
    \/ op = "and" /\ v = 1 /\ w = 1
    \/ op = "or" /\ (v = 1 \/ w = 1)
    \/ op = "=>" /\ (v = 1 => w = 1)
    \/ op = "=" /\ v = w
    \/ op = "bvult" /\ v < w
    \/ op = "bvule" /\ v =< w

\* The values of terms, given those of the names; bit-vectors are unsigned.
Value(env) ==
    LET value[t \in SmtTerms] ==
          IF IsLeaf(t) THEN env[t[2]]
          ELSE IF Len(t) = 2 THEN Bit(value[t[2]] = 0)
          ELSE Bit(True(t[1], value[t[2]], value[t[3]]))
    IN  value

Holds(t, env) == Value(env)[t] = 1
==============================================================================
