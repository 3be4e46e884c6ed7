------------------------------ MODULE SshConfig ------------------------------
(***************************************************************************)
(* scripts/ssh-config.sh: it keeps one sentinel-delimited block per alias  *)
(* in ~/.ssh/config, among lines of the user's own.                        *)
(*                                                                         *)
(* A block is its opening line, one line for the ten of its body, and its  *)
(* closing line.  The user edits the file between two runs.  A run may be  *)
(* killed between any two writes, and its filter may fail.                 *)
(***************************************************************************)
EXTENDS Naturals, Sequences

CONSTANTS
  Aliases,           \* ssh aliases
  UserLines,         \* lines the user may write
  NoAlias            \* the alias of a user's line

ASSUME NoAliasAssumption == NoAlias \notin Aliases

VARIABLES
  config,            \* ~/.ssh/config, a sequence of lines
  tmp,               \* ~/.ssh/config.tmp
  seen, skip,        \* of awk: how many lines it has read, its variable
  step,              \* what the run under way does next
  alias, adding,     \* what it was called with
  mine,              \* history: the lines the user wrote, in order
  wanted,            \* history: aliases added and not removed since
  killed             \* history: whether a run was killed

awkVars  == <<tmp, seen, skip>>
runVars  == <<step, alias, adding>>
histVars == <<mine, wanted, killed>>
vars     == <<config, awkVars, runVars, histVars>>

Line(kind, a) == [kind |-> kind, alias |-> a]
Begin(a) == Line("begin", a)
Body(a)  == Line("body", a)
End(a)   == Line("end", a)

Has(lines, l) == \E i \in DOMAIN lines : lines[i] = l

Init ==
  /\ config = <<>>
  /\ tmp = <<>> /\ seen = 0 /\ skip = FALSE
  /\ step = "idle" /\ alias = NoAlias /\ adding = FALSE
  /\ mine = <<>> /\ wanted = {} /\ killed = FALSE

(* The user writes a line of their own.                                    *)
UserWrites(u) ==
  /\ step = "idle"
  /\ ~Has(mine, Line(u, NoAlias))
  /\ config' = Append(config, Line(u, NoAlias))
  /\ mine' = Append(mine, Line(u, NoAlias))
  /\ UNCHANGED <<awkVars, runVars, wanted, killed>>

-----------------------------------------------------------------------------
(* Mutant: add appends without removing first.                             *)
StartsToAppend(a) ==
  /\ step = "idle"
  /\ alias' = a /\ adding' \in BOOLEAN
  /\ step' = IF adding' THEN "begin" ELSE "filter"
  /\ tmp' = <<>> /\ seen' = 0 /\ skip' = FALSE
  /\ UNCHANGED <<config, histVars>>

(* cmd_add, cmd_remove: awk starts, and the shell empties config.tmp.      *)
Starts(a) ==
  /\ step = "idle"
  /\ alias' = a /\ adding' \in BOOLEAN
  /\ step' = "filter"
  /\ tmp' = <<>> /\ seen' = 0 /\ skip' = FALSE
  /\ UNCHANGED <<config, histVars>>

(* Mutant: the closing line is not recognised.                             *)
FilterToEnd ==
  /\ step = "filter" /\ seen < Len(config)
  /\ seen' = seen + 1
  /\ skip' = (skip \/ config[seen'] = Begin(alias))
  /\ tmp' = IF skip' THEN tmp ELSE Append(tmp, config[seen'])
  /\ UNCHANGED <<config, runVars, histVars>>

(* The awk program, a line: it skips from the opening to the closing line  *)
(* of the alias, both included.                                            *)
Filter ==
  /\ step = "filter" /\ seen < Len(config)
  /\ seen' = seen + 1
  /\ LET line    == config[seen']
         dropped == skip \/ line = Begin(alias)
     IN /\ tmp' = IF dropped THEN tmp ELSE Append(tmp, line)
        /\ skip' = (dropped /\ line # End(alias))
  /\ UNCHANGED <<config, runVars, histVars>>

FilterEnds ==
  /\ step = "filter" /\ seen = Len(config)
  /\ step' = "move"
  /\ UNCHANGED <<config, awkVars, alias, adding, histVars>>

(* Mutant: `;` for `&&`: the file becomes what awk had written so far.     *)
MovesAnyway ==
  /\ step \in {"filter", "move"}
  /\ step' = "move"
  /\ UNCHANGED <<config, awkVars, alias, adding, histVars>>

(* awk or mv fails, no disk perhaps: `&&` and `set -e` end the run.        *)
RemovalFails ==
  /\ step \in {"filter", "move"}
  /\ step' = "idle"
  /\ UNCHANGED <<config, awkVars, alias, adding, histVars>>

(* mv config.tmp config                                                    *)
Move ==
  /\ step = "move"
  /\ config' = tmp
  /\ wanted' = wanted \ {alias}
  /\ step' = IF adding THEN "begin" ELSE "idle"
  /\ UNCHANGED <<awkVars, alias, adding, mine, killed>>

Following == [begin |-> "body", body |-> "end", end |-> "idle"]

(* Mutant: the sentinels do not name the alias.                            *)
WriteBareLine ==
  /\ step \in DOMAIN Following
  /\ config' = Append(config, Line(step, NoAlias))
  /\ wanted' = wanted \cup {alias}
  /\ step' = Following[step]
  /\ UNCHANGED <<awkVars, alias, adding, mine, killed>>

(* { printf ..; printf ..; } >> config                                     *)
WriteLine ==
  /\ step \in DOMAIN Following
  /\ config' = Append(config, Line(step, alias))
  /\ wanted' = wanted \cup {alias}
  /\ step' = Following[step]
  /\ UNCHANGED <<awkVars, alias, adding, mine, killed>>

(* The run is killed, or a printf fails.                                   *)
Crash ==
  /\ step # "idle"
  /\ step' = "idle"
  /\ killed' = TRUE
  /\ UNCHANGED <<config, awkVars, alias, adding, mine, wanted>>

Next ==
  \/ \E u \in UserLines : UserWrites(u)
  \/ \E a \in Aliases : Starts(a)
  \/ Filter \/ FilterEnds \/ RemovalFails \/ Move \/ WriteLine \/ Crash

Spec == Init /\ [][Next]_vars

-----------------------------------------------------------------------------
Lines == {Line(k, a) : k \in DOMAIN Following, a \in Aliases}
           \cup {Line(u, NoAlias) : u \in UserLines}

TypeOK ==
  /\ config \in Seq(Lines) /\ tmp \in Seq(Lines)
  /\ seen \in Nat /\ skip \in BOOLEAN
  /\ step \in {"idle", "filter", "move"} \cup DOMAIN Following
  /\ alias \in Aliases \cup {NoAlias} /\ adding \in BOOLEAN
  /\ mine \in Seq(Lines) /\ wanted \subseteq Aliases /\ killed \in BOOLEAN

UsersOwn(lines) == {i \in DOMAIN lines : lines[i].alias = NoAlias}

(* As long as no run was killed, the user's lines are in the file, all of  *)
(* them and in their order, and once, at every moment of every run.        *)
UserLinesKept ==
  killed \/ \E at \in [DOMAIN mine -> DOMAIN config] :
              /\ UsersOwn(config) = {at[k] : k \in DOMAIN mine}
              /\ \A k \in DOMAIN mine : config[at[k]] = mine[k]
              /\ \A k, m \in DOMAIN mine : k < m => at[k] < at[m]

(* ... and between two runs each alias added last has one whole block,     *)
(* however often it was added; an alias removed last has none.             *)
BlockAt(a, i) ==
  config[i] = Begin(a) /\ config[i + 1] = Body(a) /\ config[i + 2] = End(a)

OneBlockEach ==
  \/ killed \/ step # "idle"
  \/ \A a \in Aliases :
       LET own == {i \in DOMAIN config : config[i].alias = a} IN
         IF a \in wanted THEN \E i \in own : own = i..(i + 2) /\ BlockAt(a, i)
                         ELSE own = {}

(* A block opened above line i, and nowhere closed.                        *)
OpenAbove(lines, a, i) ==
  \E b \in 1..(i - 1) : lines[b] = Begin(a) /\ \A j \in b..Len(lines) : lines[j] # End(a)

(* Kills included, a line of the user's is lost only by a run whose own    *)
(* alias has, further up, a block that an earlier run was killed in: what  *)
(* stands above the open block, and behind one of another alias, stays.    *)
LostOnlyBehindTear ==
  [][\A i \in UsersOwn(config) : ~Has(config', config[i]) => OpenAbove(config, alias, i)]_vars

(* ssh-config.sh:15-16: "The block is delimited by sentinels so removal    *)
(* never touches the user's own config."                                   *)
RemovalSparesUser == \A k \in DOMAIN mine : Has(config, mine[k])

-----------------------------------------------------------------------------
(* What makes them inductive.  Kills or not, no line is there twice, and   *)
(* what follows an opening line has it right before.                       *)
Distinct(lines) == \A i, j \in DOMAIN lines : lines[i] = lines[j] => i = j

Led(lines) ==
  \A i \in DOMAIN lines, a \in Aliases :
    /\ lines[i] = Body(a) => i > 1 /\ lines[i - 1] = Begin(a)
    /\ lines[i] = End(a) => i > 1 /\ lines[i - 1] = Body(a)

(* The user's lines are in the file as they were written.                  *)
InOrder ==
  \A j \in UsersOwn(config) :
    /\ Has(mine, config[j])
    /\ \A i \in UsersOwn(config) :
         i < j => \E k, m \in DOMAIN mine : k < m /\ mine[k] = config[i] /\ mine[m] = config[j]

File ==
  /\ Distinct(config) /\ Led(config)
  /\ Distinct(mine) /\ InOrder
  /\ \A k \in DOMAIN mine : mine[k].alias = NoAlias
  /\ step = "begin" => \A i \in DOMAIN config : config[i].alias # alias
  /\ step = "body" => config # <<>> /\ config[Len(config)] = Begin(alias)
  /\ step = "end" => config # <<>> /\ config[Len(config)] = Body(alias)
  /\ step # "idle" => alias \in Aliases

(* awk has copied what it has read, in its order, but for the lines of the *)
(* alias, and but for what is behind an opening line of the alias that is  *)
(* not closed.                                                             *)
Copied ==
  step \in {"filter", "move"} =>
    /\ \A j \in DOMAIN tmp : tmp[j].alias # alias /\ \E i \in 1..seen : config[i] = tmp[j]
    /\ \A j, m \in DOMAIN tmp :
         j < m => \E i, k \in 1..seen : i < k /\ config[i] = tmp[j] /\ config[k] = tmp[m]
    /\ \A i \in 1..seen : config[i].alias # alias =>
         Has(tmp, config[i]) \/ OpenAbove(config, alias, i)
    /\ Led(tmp)
    /\ seen > 0 /\ ~skip /\ config[seen] # End(alias) =>
         tmp # <<>> /\ tmp[Len(tmp)] = config[seen]
    /\ skip => \E i \in 1..seen : config[i] = Begin(alias)
                                  /\ \A j \in i..seen : config[j] # End(alias)
    /\ ~skip => \A i \in 1..seen : config[i] = Begin(alias) =>
                  \E j \in i..seen : config[j] = End(alias)
    /\ seen <= Len(config) /\ (step = "move" => seen = Len(config))

(* Without kills every line of the user's is there, and every block is     *)
(* whole but for the one that is being written.                            *)
Closed(lines, i, a) ==
  /\ lines[i] = Begin(a) => i < Len(lines) /\ lines[i + 1] = Body(a)
  /\ lines[i] = Body(a) => i < Len(lines) /\ lines[i + 1] = End(a)

Whole ==
  killed \/
    /\ \A k \in DOMAIN mine : Has(config, mine[k])
    /\ \A a \in Aliases : a \in wanted <=> Has(config, Begin(a))
    /\ \A i \in DOMAIN config, a \in Aliases :
         Closed(config, i, a) \/ (step \in {"body", "end"} /\ i = Len(config) /\ a = alias)
    /\ step \in {"filter", "move"} =>
         \A j \in DOMAIN tmp, a \in Aliases :
           Closed(tmp, j, a) \/ (j = Len(tmp) /\ seen > 0 /\ ~skip /\ config[seen] = tmp[j])

IInv == TypeOK /\ File /\ Copied /\ Whole
=============================================================================
