------------------------------ MODULE Options -------------------------------
(***************************************************************************)
(* pipeline/Options.cpp: one table of options, set by defaults, then by    *)
(* config files (flat or legacy schema), then by flags, then by two rules  *)
(* that turn one option into another; validated, written to                *)
(* effective-config.json, and read back from there by every block.         *)
(*                                                                         *)
(* `Table' keeps the rows some rule of the code names and one row of every *)
(* other shape (type, flag or none, legacy path or none); the rest differ  *)
(* in name and default only.  A command line is a sequence of arguments, a *)
(* text or a JSON value one of those the conversions tell apart.           *)
(***************************************************************************)
EXTENDS Integers, Sequences, FiniteSetsExt

CONSTANTS
    ConfigFiles,    \* config files: name -> [schema, entries]
    CommandLines    \* the command lines considered

VARIABLES
    args,       \* the command line
    stage,      \* where parsing is
    merged,     \* the last argument of pendingConfigs that is merged, or 0
    applied,    \* the last argument of pendingFlags that is applied, or 0
    values,     \* values_
    child       \* the values a block works with, once it has read them

optionsVars == <<args, stage, merged, applied, values, child>>

-----------------------------------------------------------------------------
(* The table: type, default, flag ("" for config-only keys) and legacy     *)
(* path ("" for keys the old schema does not have).                        *)

Row(type, default, flag, legacy) ==
    [type |-> type, default |-> default, flag |-> flag, legacy |-> legacy]

Table ==
    [bound           |-> Row("int",    10,    "bound",           "Checker_settings.bounded_depth"),
     block_bound     |-> Row("int",    10,    "",                "SMART_settings.bounded_depth"),
     unbounded       |-> Row("bool",   FALSE, "unbounded",       ""),
     check_unbounded |-> Row("bool",   TRUE,  "final-unbounded", "Checker_settings.Check_unbounded"),
     unbound_check   |-> Row("bool",   FALSE, "",                "SMART_settings.unbound_check"),
     bv_predicates   |-> Row("choice", "off", "bv-predicates",   ""),
     blockified      |-> Row("bool",   TRUE,  "blockified",      "Workflow.Blockified"),
     msa             |-> Row("bool",   TRUE,  "msa",             "Blockified_settings.MSA"),
     random          |-> Row("bool",   FALSE, "random",          "Blockified_settings.Random"),
     assume          |-> Row("list",   <<>>,  "assume",          ""),
     verbosity       |-> Row("int",    0,     "",                "")]

Keys == DOMAIN Table
Defaults == [k \in Keys |-> Table[k].default]

Modes == {"off", "unsigned"}

\* parseScalar: the texts a type takes, and what they mean.  "7" stands for the
\* integers; of the eight words for a truth value, two and the empty text are
\* kept.
Fits(type, text) ==
    /\ type = "bool" => text \in {"true", "", "false"}
    /\ type = "int" => text = "7"

Parsed(type, text) ==
    IF type = "bool" THEN text # "false"
    ELSE IF type = "int" THEN 7
    ELSE IF type = "list" THEN <<text>>
    ELSE text

\* coerceJson: a JSON value has a kind; numbers serve as booleans, texts as
\* numbers, a single text as a list, but no text serves as a boolean.
Kinds ==
    [bool |-> {"bool", "int"}, int |-> {"int", "text"}, choice |-> {"text"},
     list |-> {"list", "text"}]

Coerces(type, json) ==
    /\ json.kind \in Kinds[type]
    /\ type = "int" /\ json.kind = "text" => Fits("int", json.of)

Coerced(type, json) ==
    IF type = "bool" /\ json.kind = "int" THEN json.of # 0
    ELSE IF type \in {"int", "list"} /\ json.kind = "text" THEN Parsed(type, json.of)
    ELSE json.of

\* What nlohmann::json tells apart.
JsonValues ==
    [kind : {"bool"}, of : BOOLEAN] \union [kind : {"int"}, of : Int]
      \union [kind : {"text"}, of : STRING] \union [kind : {"list"}, of : Seq(STRING)]

-----------------------------------------------------------------------------
(* Config files.  An entry is [path, json]; in a flat file the path is a   *)
(* key.  A finite choice of the wrong kind is kept (as the text it is      *)
(* printed as) for validation to reject, anything else that does not fit   *)
(* is ignored with a notice.                                               *)

Entries == [path : STRING, json : JsonValues]

ASSUME FilesOfEntries ==
    \A file \in DOMAIN ConfigFiles : ConfigFiles[file].entries \in Seq(Entries)

KeyOf(schema, path) ==
    IF schema = "flat" THEN path
    ELSE LET known == {k \in Keys : Table[k].legacy = path /\ path # ""}
         IN  IF known = {} THEN "unknown" ELSE CHOOSE k \in known : TRUE

\* the values after one entry
Entered(schema, entry, v) ==
    LET k == KeyOf(schema, entry.path) IN
    IF k \notin Keys THEN v
    ELSE IF Coerces(Table[k].type, entry.json)
         THEN [v EXCEPT ![k] = Coerced(Table[k].type, entry.json)]
    ELSE IF schema = "flat" /\ Table[k].type = "choice" THEN [v EXCEPT ![k] = "printed"]
    ELSE v

\* mergeJsonFile
Readable(file) == file \in DOMAIN ConfigFiles /\ ConfigFiles[file].schema \in {"flat", "legacy"}

Merged(file, v) ==
    LET f == ConfigFiles[file]
        after[n \in 0 .. Len(f.entries)] ==
            IF n = 0 THEN v ELSE Entered(f.schema, f.entries[n], after[n - 1])
    IN  after[Len(f.entries)]

-----------------------------------------------------------------------------
(* The command line.  A negation or a bare flag stands for a text; "level"  *)
(* is -v and -q, "bad" an unknown option or a missing value.               *)

Args ==
    [kind : {"config"}, file : STRING]
      \union [kind : {"flag"}, key : {k \in Keys : Table[k].flag # ""}, text : STRING]
      \union [kind : {"level"}, by : Int]
      \union [kind : {"bad"}]

ASSUME LinesOfArguments == \A line \in CommandLines : line \in Seq(Args)

OptionsInit ==
    /\ args \in CommandLines
    /\ stage = "scan"
    /\ merged = 0 /\ applied = 0
    /\ values = Defaults
    /\ child = <<>>

Fail ==
    /\ stage' = "user error"
    /\ UNCHANGED <<args, merged, applied, values, child>>

\* Files and flags are collected first, whatever their order.
Scan ==
    /\ stage = "scan"
    /\ IF \E i \in DOMAIN args : args[i].kind = "bad" THEN Fail
       ELSE stage' = "files" /\ UNCHANGED <<args, merged, applied, values, child>>

Pending(kind, last) == {i \in DOMAIN args : i > last /\ args[i].kind = kind}
IsFirst(i, pending) == i \in pending /\ \A j \in pending : i <= j

MergeFile ==
    /\ stage = "files"
    /\ \E i \in DOMAIN args :
        /\ IsFirst(i, Pending("config", merged))
        /\ IF ~ Readable(args[i].file) THEN Fail
           ELSE /\ values' = Merged(args[i].file, values)
                /\ merged' = i
                /\ UNCHANGED <<args, stage, applied, child>>

\* A list option takes one more item, any other a new value.
Assigned(key, text) ==
    IF Table[key].type = "list"
    THEN Append(values[key], text)
    ELSE Parsed(Table[key].type, text)

FilesAnyTime == TRUE
FilesDone == Pending("config", merged) = {}

ApplyFlag ==
    /\ stage = "files" /\ FilesDone
    /\ \E i \in DOMAIN args :
        /\ IsFirst(i, Pending("flag", applied))
        /\ IF ~ Fits(Table[args[i].key].type, args[i].text) THEN Fail
           ELSE /\ values' = [values EXCEPT ![args[i].key] = Assigned(args[i].key, args[i].text)]
                /\ applied' = i
                /\ UNCHANGED <<args, stage, merged, child>>

GivenAt(key) == {i \in DOMAIN args : args[i].kind = "flag" /\ args[i].key = key}
Given(key) == GivenAt(key) # {}

Strategy(v) == \/ v["msa"] /\ Given("msa")
               \/ v["random"] /\ Given("random")

Level ==
    values["verbosity"]
      + MapThenSumSet(LAMBDA i : args[i].by, {i \in DOMAIN args : args[i].kind = "level"})

\* The rules at the end of parseCommandLine.
Implied ==
    [values EXCEPT !["verbosity"] = Level,
                   !["blockified"] = @ \/ Strategy(values),
                   !["check_unbounded"] = @ \/ values["unbounded"],
                   !["unbound_check"] = @ \/ values["unbounded"]]

Conclude ==
    /\ stage = "files" /\ FilesDone /\ Pending("flag", applied) = {}
    /\ values' = Implied
    /\ stage' = "parsed"
    /\ UNCHANGED <<args, merged, applied, child>>

Valid(v) == v["bv_predicates"] \in Modes

Validate ==
    /\ stage = "parsed"
    /\ IF Valid(values)
       THEN stage' = "running" /\ UNCHANGED <<args, merged, applied, values, child>>
       ELSE Fail

-----------------------------------------------------------------------------
(* effective-config.json: every key with its value, in the flat schema; a  *)
(* block merges it into the defaults.  Booleans, numbers, texts and lists  *)
(* are printed as such.                                                    *)

JsonOf(type, value) ==
    [kind |-> IF type = "choice" THEN "text" ELSE type, of |-> value]

Effective == [k \in Keys |-> JsonOf(Table[k].type, values[k])]

BlockReads ==
    /\ stage = "running"
    /\ LET lost == {k \in Keys : ~ Coerces(Table[k].type, Effective[k])}
       IN  /\ child' = [k \in Keys |-> IF k \in lost THEN Defaults[k]
                                        ELSE Coerced(Table[k].type, Effective[k])]
           /\ stage' = IF lost = {} THEN "block" ELSE "block error"
    /\ UNCHANGED <<args, merged, applied, values>>

OptionsNext == Scan \/ MergeFile \/ ApplyFlag \/ Conclude \/ Validate \/ BlockReads

OptionsSpec == OptionsInit /\ [][OptionsNext]_optionsVars

-----------------------------------------------------------------------------
Accepted == stage \in {"parsed", "running", "block", "block error"}

\* Two rules end parseCommandLine that turn options on.
Overruled(k) ==
    \/ k \in {"check_unbounded", "unbound_check"} /\ values["unbounded"]
    \/ k = "blockified" /\ Strategy(values)

Later(i, key) == {j \in GivenAt(key) : j > i}

\* What is worked with: by the run, or by a block that has read the file.
Settled(k) == IF stage = "block" THEN child[k] ELSE values[k]

\* "CLI > file holds" (parseCommandLine): the last flag of a key decides its
\* value, and the items given for a list end it in their order, whatever the
\* files say and wherever they stand on the command line.  Two rules overrule a
\* flag: `unbounded', from a file too, turns the k-induction switches on, and a
\* strategy asked for by flag turns iteration on.  All of it holds in every
\* block too, which reads its options from the file the run wrote and never
\* stumbles over it.
FlagsWin ==
    /\ stage # "block error"
    /\ Accepted =>
         \A k \in Keys :
           /\ stage = "block" => child[k] = values[k]
           /\ \A i \in GivenAt(k) :
                IF Table[k].type = "list"
                THEN LET fromEnd == Cardinality(Later(i, k))
                     IN  /\ fromEnd < Len(Settled(k))
                         /\ Settled(k)[Len(Settled(k)) - fromEnd] = args[i].text
                ELSE Later(i, k) = {} =>
                       Settled(k) = Parsed(Table[k].type, args[i].text) \/ Overruled(k)
=============================================================================
