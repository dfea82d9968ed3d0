------------------------------- MODULE VaultOps -------------------------------
(***************************************************************************)
(* Files of a vault and the six operations of vault_transaction, as pure   *)
(* operators: what src/src/storage/transaction.ts checks of an operation   *)
(* in memory (simulate), what the adapter checks again when it is applied  *)
(* (apply, and local-fs.ts), and what the operation makes of the files.    *)
(*                                                                         *)
(* A text file is the set of its parts: frontmatter keys (Key), the mark   *)
(* of a frontmatter block that is not valid YAML (Broken), and body lines. *)
(* Any other file is one of two opaque values: an attachment (Binary) or   *)
(* what an interrupted copy left (Torn).  A content hash is modelled by    *)
(* the content itself.                                                     *)
(***************************************************************************)
EXTENDS Naturals, Sequences, FiniteSets

CONSTANTS
  Path,      \* normalized vault paths
  Markdown,  \* those that end in .md
  Token,     \* parts of text files
  Key,       \* those that are frontmatter keys
  Broken,    \* the part that makes a frontmatter block unusable
  Binary, Torn, Absent,  \* an attachment, a half-copied file, no file
  Any        \* no expectedHash was given

ASSUME VaultAssumption ==
  /\ Markdown \subseteq Path
  /\ Key \subseteq Token
  /\ Broken \in Token \ Key
  /\ {Binary, Torn, Absent, Any} \cap SUBSET Token = {}
  /\ Binary # Torn /\ Binary # Absent /\ Torn # Absent
  /\ Any \notin {Binary, Torn, Absent}

Text == SUBSET Token
Bytes == Text \cup {Binary, Torn}
File == Bytes \cup {Absent}
Vault == [Path -> File]

IsText(f) == f \notin {Binary, Torn, Absent}

Op ==
  [op : {"write"}, path : Path, text : Text, merge : BOOLEAN,
   expect : Bytes \cup {Any}]
    \cup
  [op : {"edit"}, path : Path, find : Token, replace : Token,
   expect : Bytes \cup {Any}]
    \cup
  [op : {"append"}, path : Path, line : Token, heading : SUBSET Token,
   unique : BOOLEAN, expect : Bytes \cup {Any}]
    \cup
  [op : {"frontmatter_update"}, path : Path, set : SUBSET Key,
   unset : SUBSET Key, expect : Bytes \cup {Any}]
    \cup
  [op : {"move"}, path : Path, to : Path, expect : Bytes \cup {Any}]
    \cup
  [op : {"delete"}, path : Path, confirm : BOOLEAN, expect : Bytes \cup {Any}]

(* pathsOf *)
PathsOf(op) == IF op.op = "move" THEN {op.path, op.to} ELSE {op.path}

Touched(ops) == UNION {PathsOf(ops[i]) : i \in 1..Len(ops)}

(* splitLenient: the keys of a note; none when its block is unusable. *)
KeysIn(p, f) ==
  IF p \in Markdown /\ IsText(f) /\ Broken \notin f THEN f \cap Key ELSE {}

Merges(op) == op.op = "write" /\ op.merge /\ op.path \in Markdown

(* What both the pre-flight and the adapter require of the files S. *)
Ready(op, S) ==
  LET f == S[op.path] IN
  \/ op.op = "write" /\ (Merges(op) => f \notin {Binary, Torn} /\ Broken \notin op.text)
  \/ op.op = "edit" /\ IsText(f) /\ op.find \in f
  \/ /\ op.op = "append"
     /\ IF op.heading = {} THEN f \notin {Binary, Torn}
                           ELSE IsText(f) /\ op.heading \subseteq f
  \/ /\ op.op = "frontmatter_update"
     /\ op.path \in Markdown /\ IsText(f) /\ Broken \notin f
  \/ op.op = "move" /\ op.path # op.to /\ f # Absent /\ S[op.to] = Absent
  \/ op.op = "delete" /\ op.confirm /\ f # Absent

(* assertExpectedHash, against the file op.path *)
AsExpected(op, S) == op.expect = Any \/ op.expect = S[op.path]

(* simulate(op) does not throw. *)
Passes(op, S) == Ready(op, S) /\ AsExpected(op, S)

(* The adapter call for op does not throw, short of an I/O failure.  It is *)
(* given no expectedHash; a merging write refuses a note whose block is    *)
(* unusable (assertUsableFrontmatter).                                     *)
Applies(op, S) ==
  /\ Ready(op, S)
  /\ Merges(op) /\ IsText(S[op.path]) => Broken \notin S[op.path]

(* The text an operation leaves at op.path, over the text f there. *)
Produced(op, f) ==
  LET old == IF IsText(f) THEN f ELSE {} IN
  CASE op.op = "write" ->
         op.text \cup (IF op.merge THEN KeysIn(op.path, f) ELSE {})
    [] op.op = "edit" -> (old \ {op.find}) \cup {op.replace}
    [] op.op = "append" -> old \cup {op.line}
    [] OTHER -> (old \cup op.set) \ op.unset  \* frontmatter_update

(* A `unique` append whose line is there already writes nothing. *)
Skips(op, f) ==
  op.op = "append" /\ op.unique /\ IsText(f) /\ op.line \in f

(* The files after op, in the simulation and on disk alike. *)
Effect(op, S) ==
  CASE op.op = "move" ->
         [S EXCEPT ![op.to] = S[op.path], ![op.path] = Absent]
    [] op.op = "delete" -> [S EXCEPT ![op.path] = Absent]
    [] OTHER -> IF Skips(op, S[op.path]) THEN S
                ELSE [S EXCEPT ![op.path] = Produced(op, S[op.path])]

(* The files after the whole batch, and whether every op passes in turn. *)
After(ops, S) ==
  LET run[i \in 0..Len(ops)] ==
        IF i = 0 THEN S ELSE Effect(ops[i], run[i - 1])
  IN  run
Result(ops, S) == After(ops, S)[Len(ops)]
AllPass(ops, S) == \A i \in 1..Len(ops) : Passes(ops[i], After(ops, S)[i - 1])
=============================================================================
