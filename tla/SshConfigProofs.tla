--------------------------- MODULE SshConfigProofs ---------------------------
(***************************************************************************)
(* Proofs about SshConfig for every set of aliases and of user's lines.    *)
(***************************************************************************)
EXTENDS SshConfig, SequenceTheorems, TLAPS

USE NoAliasAssumption

-----------------------------------------------------------------------------
(* Lines, and what appending one does to a file.                           *)

LEMMA Kinds ==
  ASSUME NEW a \in Aliases
  PROVE  /\ {Begin(a), Body(a), End(a)} \subseteq Lines
         /\ Begin(a).alias = a /\ Body(a).alias = a /\ End(a).alias = a
         /\ Begin(a) # Body(a) /\ Begin(a) # End(a) /\ Body(a) # End(a)
  BY DEF Begin, Body, End, Line, Lines, Following

LEMMA UserKind ==
  ASSUME NEW u \in UserLines
  PROVE  Line(u, NoAlias) \in Lines /\ Line(u, NoAlias).alias = NoAlias
  BY DEF Line, Lines

LEMMA OfAlias ==
  ASSUME NEW l \in Lines, NEW a \in Aliases, l.alias = a
  PROVE  l \in {Begin(a), Body(a), End(a)}
  BY DEF Begin, Body, End, Line, Lines, Following

LEMMA Written ==
  ASSUME TypeOK, File, WriteLine
  PROVE  /\ alias \in Aliases /\ step \in {"begin", "body", "end"}
         /\ step = "begin" => Line(step, alias) = Begin(alias) /\ step' = "body"
         /\ step = "body" => Line(step, alias) = Body(alias) /\ step' = "end"
         /\ step = "end" => Line(step, alias) = End(alias) /\ step' = "idle"
         /\ Line(step, alias) \in Lines /\ Line(step, alias).alias = alias
<1>1. alias \in Aliases /\ step \in {"begin", "body", "end"}
  BY DEF File, WriteLine, Following
<1> QED
  BY <1>1, Kinds DEF WriteLine, Following, Begin, Body, End

LEMMA Appended ==
  ASSUME NEW s \in Seq(Lines), NEW l \in Lines
  PROVE  /\ Append(s, l) \in Seq(Lines)
         /\ Len(Append(s, l)) = Len(s) + 1 /\ Len(s) \in Nat
         /\ DOMAIN s = 1..Len(s) /\ DOMAIN Append(s, l) = 1..(Len(s) + 1)
         /\ Append(s, l)[Len(s) + 1] = l
         /\ \A i \in DOMAIN s : Append(s, l)[i] = s[i] /\ s[i] \in Lines
  OBVIOUS

-----------------------------------------------------------------------------
(* Types.                                                                  *)

LEMMA NextType ==
  ASSUME TypeOK, File, [Next]_vars
  PROVE  TypeOK'
<1> USE DEF TypeOK
<1>1. ASSUME NEW u \in UserLines, UserWrites(u) PROVE TypeOK'
  BY <1>1, UserKind, Appended DEF UserWrites, awkVars, runVars
<1>2. ASSUME NEW a \in Aliases, Starts(a) PROVE TypeOK'
  <2>1. /\ config' = config /\ mine' = mine /\ wanted' = wanted /\ killed' = killed
        /\ alias' \in Aliases /\ step' = "filter" /\ tmp' = <<>> /\ seen' = 0
    BY <1>2 DEF Starts, histVars
  <2>2. adding' \in BOOLEAN /\ skip' \in BOOLEAN /\ killed' \in BOOLEAN
    BY <1>2, Zenon DEF Starts, histVars
  <2> QED
    BY <2>1, <2>2
<1>3. CASE Filter
  <2>1. config[seen'] \in Lines /\ seen' \in Nat
    BY <1>3 DEF Filter
  <2>2. tmp' \in Seq(Lines)
    BY <1>3, <2>1, Appended DEF Filter
  <2>3. skip' \in BOOLEAN
    BY <1>3 DEF Filter
  <2> QED
    BY <1>3, <2>1, <2>2, <2>3 DEF Filter, runVars, histVars
<1>4. CASE FilterEnds \/ RemovalFails
  BY <1>4 DEF FilterEnds, RemovalFails, awkVars, histVars
<1>5. CASE Move
  BY <1>5 DEF Move, awkVars, Following
<1>6. CASE WriteLine
  <2>1. config' \in Seq(Lines) /\ step' \in {"idle", "filter", "move"} \cup DOMAIN Following
    BY <1>6, Written, Appended DEF WriteLine, Following
  <2> QED
    BY <1>6, <2>1, Written DEF WriteLine, awkVars
<1>7. CASE Crash
  BY <1>7 DEF Crash, awkVars
<1>8. CASE UNCHANGED vars
  BY <1>8 DEF vars, awkVars, runVars, histVars
<1> QED
  BY <1>1, <1>2, <1>3, <1>4, <1>5, <1>6, <1>7, <1>8 DEF Next

-----------------------------------------------------------------------------
(* The file.                                                               *)

(* A line behind the one it has to follow.                                 *)
LEMMA AppendLed ==
  ASSUME NEW s \in Seq(Lines), NEW l \in Lines, Led(s),
         \A a \in Aliases :
           /\ l = Body(a) => s # <<>> /\ s[Len(s)] = Begin(a)
           /\ l = End(a) => s # <<>> /\ s[Len(s)] = Body(a)
  PROVE  Led(Append(s, l))
<1> DEFINE t == Append(s, l)
<1>1. /\ Len(s) \in Nat /\ DOMAIN s = 1..Len(s) /\ DOMAIN t = 1..(Len(s) + 1)
      /\ t[Len(s) + 1] = l /\ \A i \in DOMAIN s : t[i] = s[i]
  BY Appended
<1> HIDE DEF t
<1>2. ASSUME NEW i \in DOMAIN t, NEW a \in Aliases
      PROVE  /\ t[i] = Body(a) => i > 1 /\ t[i - 1] = Begin(a)
             /\ t[i] = End(a) => i > 1 /\ t[i - 1] = Body(a)
  <2>1. CASE i = Len(s) + 1
    <3>1. s # <<>> => Len(s) \in DOMAIN s
      BY <1>1
    <3> QED
      BY <2>1, <3>1, <1>1
  <2>2. CASE i \in DOMAIN s
    <3>1. i > 1 => i - 1 \in DOMAIN s
      BY <2>2, <1>1
    <3> QED
      BY <2>2, <3>1, <1>1 DEF Led
  <2> QED
    BY <2>1, <2>2, <1>1
<1> QED
  BY <1>2 DEF Led, t

(* A line that is not there yet.                                           *)
LEMMA AppendDistinct ==
  ASSUME NEW s \in Seq(Lines), NEW l \in Lines, Distinct(s), ~Has(s, l)
  PROVE  Distinct(Append(s, l))
<1>1. /\ Len(s) \in Nat /\ DOMAIN s = 1..Len(s) /\ DOMAIN Append(s, l) = 1..(Len(s) + 1)
      /\ Append(s, l)[Len(s) + 1] = l /\ \A i \in DOMAIN s : Append(s, l)[i] = s[i]
  BY Appended
<1> QED
  BY <1>1 DEF Distinct, Has

(* The line a run writes is not there yet.                                 *)
LEMMA NotThereYet ==
  ASSUME TypeOK, File, WriteLine
  PROVE  ~Has(config, Line(step, alias))
<1>1. alias \in Aliases /\ config \in Seq(Lines)
  BY Written DEF TypeOK
<1>2. CASE step = "begin"
  BY <1>2, Written DEF File, Has
<1>3. CASE step = "body"
  <2> SUFFICES ASSUME NEW i \in DOMAIN config, config[i] = Body(alias) PROVE FALSE
    BY <1>3, Written DEF Has
  <2>1. config # <<>> /\ config[Len(config)] = Begin(alias)
    BY <1>3 DEF File
  <2>2. i > 1 /\ config[i - 1] = Begin(alias)
    BY <1>1 DEF File, Led
  <2>3. i - 1 \in DOMAIN config /\ Len(config) \in DOMAIN config /\ i - 1 # Len(config)
    BY <1>1, <2>1, <2>2
  <2> QED
    BY <2>1, <2>2, <2>3 DEF File, Distinct
<1>4. CASE step = "end"
  <2> SUFFICES ASSUME NEW i \in DOMAIN config, config[i] = End(alias) PROVE FALSE
    BY <1>4, Written DEF Has
  <2>1. config # <<>> /\ config[Len(config)] = Body(alias)
    BY <1>4 DEF File
  <2>2. i > 1 /\ config[i - 1] = Body(alias)
    BY <1>1 DEF File, Led
  <2>3. i - 1 \in DOMAIN config /\ Len(config) \in DOMAIN config /\ i - 1 # Len(config)
    BY <1>1, <2>1, <2>2
  <2> QED
    BY <2>1, <2>2, <2>3 DEF File, Distinct
<1> QED
  BY <1>2, <1>3, <1>4, Written

(* config.tmp takes the file's place.                                      *)
LEMMA MoveFile ==
  ASSUME TypeOK, File, Copied, Move
  PROVE  File'
<1>1. /\ config' = tmp /\ mine' = mine /\ alias' = alias
      /\ step' \in {"begin", "idle"} /\ step = "move" /\ alias \in Aliases
  BY DEF Move, File
<1>2. 1..seen = DOMAIN config /\ tmp \in Seq(Lines) /\ config \in Seq(Lines)
  BY <1>1 DEF Copied, TypeOK
<1>3. /\ \A j \in DOMAIN tmp : \E i \in 1..seen : config[i] = tmp[j]
      /\ \A j, m \in DOMAIN tmp :
           j < m => \E i, k \in 1..seen : i < k /\ config[i] = tmp[j] /\ config[k] = tmp[m]
  BY <1>1 DEF Copied
<1>4. Distinct(tmp)
  <2> SUFFICES ASSUME NEW j \in DOMAIN tmp, NEW m \in DOMAIN tmp, tmp[j] = tmp[m], j < m
               PROVE  FALSE
    BY <1>2 DEF Distinct
  <2>1. PICK i \in 1..seen, k \in 1..seen : i < k /\ config[i] = tmp[j] /\ config[k] = tmp[m]
    BY <1>3
  <2> QED
    <3>1. i \in DOMAIN config /\ k \in DOMAIN config /\ config[i] = config[k]
      BY <1>2, <2>1
    <3>2. i # k
      BY <2>1
    <3> QED
      BY <3>1, <3>2 DEF File, Distinct
<1>5. InOrder'
  <2> SUFFICES ASSUME NEW m \in DOMAIN tmp, tmp[m].alias = NoAlias
               PROVE  /\ Has(mine, tmp[m])
                      /\ \A j \in UsersOwn(tmp) :
                           j < m => \E k, n \in DOMAIN mine :
                                      k < n /\ mine[k] = tmp[j] /\ mine[n] = tmp[m]
    BY <1>1 DEF InOrder, UsersOwn
  <2>1. Has(mine, tmp[m])
    BY <1>2, <1>3 DEF File, InOrder, UsersOwn
  <2>2. ASSUME NEW j \in UsersOwn(tmp), j < m
        PROVE  \E k, n \in DOMAIN mine : k < n /\ mine[k] = tmp[j] /\ mine[n] = tmp[m]
    <3>0. j \in DOMAIN tmp /\ tmp[j].alias = NoAlias
      BY <2>2 DEF UsersOwn
    <3>1. PICK i \in 1..seen, h \in 1..seen : i < h /\ config[i] = tmp[j] /\ config[h] = tmp[m]
      BY <1>3, <2>2, <3>0
    <3>2. i \in UsersOwn(config) /\ h \in UsersOwn(config)
      BY <1>2, <3>0, <3>1 DEF UsersOwn
    <3>3. PICK k \in DOMAIN mine, n \in DOMAIN mine :
                k < n /\ mine[k] = config[i] /\ mine[n] = config[h]
      BY <3>1, <3>2 DEF File, InOrder
    <3> QED
      BY <3>1, <3>3
  <2> QED
    BY <2>1, <2>2
<1>6. Led(tmp) /\ \A j \in DOMAIN tmp : tmp[j].alias # alias
  BY <1>1 DEF Copied
<1> QED
  BY <1>1, <1>4, <1>5, <1>6 DEF File

LEMMA NextFile ==
  ASSUME TypeOK, File, Copied, [Next]_vars
  PROVE  File'
<1>t. config \in Seq(Lines) /\ mine \in Seq(Lines)
  BY DEF TypeOK
<1>1. ASSUME NEW u \in UserLines, UserWrites(u) PROVE File'
  <2> DEFINE l == Line(u, NoAlias)
  <2>1. /\ config' = Append(config, l) /\ mine' = Append(mine, l) /\ step' = "idle"
        /\ ~Has(mine, l) /\ l \in Lines /\ l.alias = NoAlias
    BY <1>1, UserKind DEF UserWrites, runVars
  <2> HIDE DEF l
  <2>2. ~Has(config, l)
    BY <2>1 DEF File, InOrder, UsersOwn, Has
  <2>3. \A a \in Aliases : l # Body(a) /\ l # End(a)
    BY <2>1, Kinds
  <2>4. Distinct(config') /\ Led(config')
    BY <1>t, <2>1, <2>2, <2>3, AppendLed, AppendDistinct DEF File
  <2>5. /\ DOMAIN mine' = 1..(Len(mine) + 1) /\ DOMAIN mine = 1..Len(mine) /\ Len(mine) \in Nat
        /\ mine'[Len(mine) + 1] = l /\ \A k \in DOMAIN mine : mine'[k] = mine[k]
    BY <1>t, <2>1, Appended
  <2>6. /\ DOMAIN config' = 1..(Len(config) + 1) /\ DOMAIN config = 1..Len(config)
        /\ Len(config) \in Nat
        /\ config'[Len(config) + 1] = l /\ \A i \in DOMAIN config : config'[i] = config[i]
    BY <1>t, <2>1, Appended
  <2>7. Distinct(mine') /\ \A k \in DOMAIN mine' : mine'[k].alias = NoAlias
    BY <2>1, <2>5 DEF File, Distinct, Has
  <2>8. ASSUME NEW j \in UsersOwn(config')
        PROVE  /\ Has(mine', config'[j])
               /\ \A i \in UsersOwn(config') :
                    i < j => \E k, m \in DOMAIN mine' :
                               k < m /\ mine'[k] = config'[i] /\ mine'[m] = config'[j]
    <3>1. CASE j \in DOMAIN config
      <4>1. j \in UsersOwn(config) /\ config'[j] = config[j]
        BY <3>1, <2>6 DEF UsersOwn
      <4>2. Has(mine', config'[j])
        BY <4>1, <2>5 DEF File, InOrder, Has
      <4>3. ASSUME NEW i \in UsersOwn(config'), i < j
            PROVE  \E k, m \in DOMAIN mine' :
                     k < m /\ mine'[k] = config'[i] /\ mine'[m] = config'[j]
        <5>1. i \in UsersOwn(config) /\ config'[i] = config[i]
          BY <3>1, <4>3, <2>6 DEF UsersOwn
        <5>2. PICK k \in DOMAIN mine, m \in DOMAIN mine :
                    k < m /\ mine[k] = config[i] /\ mine[m] = config[j]
          BY <4>1, <4>3, <5>1 DEF File, InOrder
        <5> QED
          BY <4>1, <5>1, <5>2, <2>5
      <4> QED
        BY <4>2, <4>3
    <3>2. CASE j = Len(config) + 1
      <4>1. Has(mine', config'[j])
        BY <3>2, <2>5, <2>6 DEF Has
      <4>2. ASSUME NEW i \in UsersOwn(config'), i < j
            PROVE  \E k, m \in DOMAIN mine' :
                     k < m /\ mine'[k] = config'[i] /\ mine'[m] = config'[j]
        <5>1. i \in UsersOwn(config) /\ config'[i] = config[i]
          BY <3>2, <4>2, <2>6 DEF UsersOwn
        <5>2. PICK k \in DOMAIN mine : mine[k] = config[i]
          BY <5>1 DEF File, InOrder, Has
        <5>3. k < Len(mine) + 1 /\ k \in DOMAIN mine' /\ Len(mine) + 1 \in DOMAIN mine'
          BY <2>5
        <5> QED
          BY <3>2, <5>1, <5>2, <5>3, <2>5, <2>6
      <4> QED
        BY <4>1, <4>2
    <3> QED
      BY <3>1, <3>2, <2>6 DEF UsersOwn
  <2> QED
    BY <2>1, <2>4, <2>7, <2>8 DEF File, InOrder
<1>2. ASSUME NEW a \in Aliases, Starts(a) PROVE File'
  BY <1>2 DEF Starts, histVars, File, InOrder
<1>3. CASE Filter
  BY <1>3 DEF Filter, runVars, histVars, File, InOrder
<1>4. CASE FilterEnds \/ RemovalFails \/ Crash
  BY <1>4 DEF FilterEnds, RemovalFails, Crash, histVars, File, InOrder
<1>5. CASE Move
  BY <1>5, MoveFile
<1>6. CASE WriteLine
  <2> DEFINE l == Line(step, alias)
  <2>1. /\ config' = Append(config, l) /\ mine' = mine /\ alias' = alias
        /\ alias \in Aliases /\ l \in Lines /\ l.alias = alias /\ ~Has(config, l)
    BY <1>6, Written, NotThereYet DEF WriteLine
  <2>2. /\ step = "begin" => l = Begin(alias) /\ step' = "body"
        /\ step = "body" => l = Body(alias) /\ step' = "end"
        /\ step = "end" => l = End(alias) /\ step' = "idle"
        /\ step \in {"begin", "body", "end"}
    BY <1>6, Written
  <2> HIDE DEF l
  <2>3. ASSUME NEW a \in Aliases
        PROVE  /\ l = Body(a) => config # <<>> /\ config[Len(config)] = Begin(a)
               /\ l = End(a) => config # <<>> /\ config[Len(config)] = Body(a)
    BY <2>1, <2>2, Kinds DEF File
  <2>4. Distinct(config') /\ Led(config')
    BY <1>t, <2>1, <2>3, AppendLed, AppendDistinct DEF File
  <2>6. /\ DOMAIN config' = 1..(Len(config) + 1) /\ DOMAIN config = 1..Len(config)
        /\ Len(config) \in Nat /\ Len(config') = Len(config) + 1
        /\ config'[Len(config) + 1] = l /\ \A i \in DOMAIN config : config'[i] = config[i]
    BY <1>t, <2>1, Appended
  <2>5. UsersOwn(config') = UsersOwn(config) /\ \A i \in UsersOwn(config) : config'[i] = config[i]
    BY <2>1, <2>6 DEF UsersOwn
  <2>7. InOrder'
    <3>1. InOrder
      BY DEF File
    <3>2. ASSUME NEW j \in UsersOwn(config'), NEW i \in UsersOwn(config'), i < j
          PROVE  \E k, m \in DOMAIN mine' :
                   k < m /\ mine'[k] = config'[i] /\ mine'[m] = config'[j]
      <4>1. PICK k \in DOMAIN mine, m \in DOMAIN mine :
                  k < m /\ mine[k] = config[i] /\ mine[m] = config[j]
        BY <2>5, <3>1, <3>2 DEF InOrder
      <4> QED
        BY <2>1, <2>5, <3>2, <4>1
    <3>3. \A j \in UsersOwn(config') : Has(mine', config'[j])
      <4> SUFFICES ASSUME NEW j \in UsersOwn(config) PROVE Has(mine, config[j])
        BY <2>1, <2>5
      <4> QED
        BY <3>1 DEF InOrder
    <3> QED
      BY <3>2, <3>3 DEF InOrder
  <2>8. config' # <<>> /\ config'[Len(config')] = l
    BY <2>6
  <2> QED
    BY <2>1, <2>2, <2>4, <2>7, <2>8 DEF File
<1>8. CASE UNCHANGED vars
  BY <1>8 DEF vars, awkVars, runVars, histVars, File, InOrder
<1> QED
  BY <1>1, <1>2, <1>3, <1>4, <1>5, <1>6, <1>8 DEF Next
-----------------------------------------------------------------------------
(* What awk has copied.                                                    *)

(* What Filter does with the line it reads.                                *)
LEMMA Reads ==
  ASSUME TypeOK, File, Copied, Filter
  PROVE  LET n == seen + 1
             dropped == skip \/ config[n] = Begin(alias)
         IN  /\ n \in DOMAIN config /\ config[n] \in Lines /\ alias \in Aliases
             /\ seen' = n /\ config' = config /\ alias' = alias
             /\ step = "filter" /\ step' = "filter"
             /\ dropped => tmp' = tmp
             /\ ~dropped => tmp' = Append(tmp, config[n]) /\ config[n].alias # alias
             /\ dropped /\ config[n].alias # alias => OpenAbove(config, alias, n)
             /\ skip' <=> dropped /\ config[n] # End(alias)
<1> DEFINE n == seen + 1
           line == config[n]
           dropped == skip \/ line = Begin(alias)
<1>1. /\ n \in DOMAIN config /\ line \in Lines /\ alias \in Aliases
      /\ seen' = n /\ config' = config /\ alias' = alias /\ step = "filter" /\ step' = "filter"
      /\ seen \in Nat /\ DOMAIN config = 1..Len(config) /\ Len(config) \in Nat
  BY DEF TypeOK, File, Filter, runVars
<1>2. /\ dropped => tmp' = tmp
      /\ ~dropped => tmp' = Append(tmp, line)
      /\ skip' <=> dropped /\ line # End(alias)
  BY <1>1 DEF Filter
<1>k. /\ Begin(alias) # Body(alias) /\ Begin(alias) # End(alias) /\ Body(alias) # End(alias)
      /\ Begin(alias).alias = alias /\ Body(alias).alias = alias /\ End(alias).alias = alias
  BY <1>1, Kinds
<1>3. ASSUME ~dropped, line.alias = alias PROVE FALSE
  <2>1. line = Body(alias) \/ line = End(alias)
    BY <1>1, <1>3, OfAlias
  <2>2. \A i \in 1..seen : config[i] = Begin(alias) => \E j \in i..seen : config[j] = End(alias)
    BY <1>1, <1>3 DEF Copied
  <2>3. CASE line = Body(alias)
    <3>1. seen \in 1..seen /\ config[seen] = Begin(alias)
      <4>1. n > 1 /\ config[n - 1] = Begin(alias)
        BY <1>1, <2>3 DEF File, Led
      <4>2. n - 1 = seen
        BY <1>1
      <4> HIDE DEF n
      <4> QED
        BY <1>1, <4>1, <4>2
    <3> QED
      BY <1>1, <1>k, <2>2, <3>1
  <2>4. CASE line = End(alias)
    <3>1. seen \in 1..seen /\ config[seen] = Body(alias)
      <4>1. n > 1 /\ config[n - 1] = Body(alias)
        BY <1>1, <2>4 DEF File, Led
      <4>2. n - 1 = seen
        BY <1>1
      <4> HIDE DEF n
      <4> QED
        BY <1>1, <4>1, <4>2
    <3>2. seen - 1 \in 1..seen /\ config[seen - 1] = Begin(alias)
      <4>1. seen \in DOMAIN config
        BY <1>1, <3>1
      <4>2. seen > 1 /\ config[seen - 1] = Begin(alias)
        BY <1>1, <3>1, <4>1 DEF File, Led
      <4> QED
        BY <1>1, <4>2
    <3>3. PICK j \in (seen - 1)..seen : config[j] = End(alias)
      BY <2>2, <3>2
    <3>4. j = seen - 1 \/ j = seen
      BY <1>1
    <3> QED
      BY <1>k, <3>1, <3>2, <3>3, <3>4
  <2> QED
    BY <2>1, <2>3, <2>4
<1>4. ASSUME dropped, line.alias # alias PROVE OpenAbove(config, alias, n)
  <2>1. PICK b \in 1..seen : config[b] = Begin(alias) /\ \A j \in b..seen : config[j] # End(alias)
    BY <1>1, <1>4, <1>k DEF Copied
  <2>2. b \in DOMAIN config
    BY <1>1
  <2>3. ASSUME NEW k \in b..Len(config), config[k] = End(alias) PROVE FALSE
    <3>1. k > seen /\ k # n /\ k \in DOMAIN config
      BY <1>1, <1>4, <1>k, <2>1, <2>3
    <3>2. k > 1 /\ config[k - 1] = Body(alias)
      BY <1>1, <2>3, <3>1 DEF File, Led
    <3>3. k - 1 \in DOMAIN config
      BY <1>1, <3>1, <3>2
    <3>4. k - 1 > 1 /\ config[k - 2] = Begin(alias) /\ k - 2 \in DOMAIN config
      BY <1>1, <3>2, <3>3 DEF File, Led
    <3>5. k - 2 = b
      BY <2>1, <2>2, <3>4 DEF File, Distinct
    <3>6. k - 1 = n
      BY <1>1, <3>1, <3>5
    <3> QED
      BY <1>4, <1>k, <3>2, <3>6
  <2>4. b \in 1..(n - 1)
    BY <1>1
  <2> QED
    BY <2>1, <2>3, <2>4 DEF OpenAbove
<1> QED
  BY <1>1, <1>2, <1>3, <1>4

LEMMA FilterCopied ==
  ASSUME TypeOK, File, Copied, Filter
  PROVE  Copied'
<1> DEFINE n == seen + 1
           line == config[n]
           dropped == skip \/ line = Begin(alias)
<1>1. /\ n \in DOMAIN config /\ line \in Lines /\ alias \in Aliases
      /\ seen' = n /\ config' = config /\ alias' = alias /\ step = "filter" /\ step' = "filter"
      /\ dropped => tmp' = tmp
      /\ ~dropped => tmp' = Append(tmp, line) /\ line.alias # alias
      /\ dropped /\ line.alias # alias => OpenAbove(config, alias, n)
      /\ skip' <=> dropped /\ line # End(alias)
  BY Reads
<1>2. /\ seen \in Nat /\ n \in Nat /\ n <= Len(config)
      /\ 1..n = 1..seen \cup {n} /\ n \notin 1..seen
      /\ tmp \in Seq(Lines)
  BY <1>1 DEF TypeOK
<1>3. ~dropped =>
        /\ Len(tmp) \in Nat /\ Len(tmp') = Len(tmp) + 1
        /\ DOMAIN tmp = 1..Len(tmp) /\ DOMAIN tmp' = 1..(Len(tmp) + 1)
        /\ tmp'[Len(tmp) + 1] = line /\ \A j \in DOMAIN tmp : tmp'[j] = tmp[j]
  BY <1>1, <1>2, Appended
<1>c. /\ \A j \in DOMAIN tmp : tmp[j].alias # alias /\ \E i \in 1..seen : config[i] = tmp[j]
      /\ \A j, m \in DOMAIN tmp :
           j < m => \E i, k \in 1..seen : i < k /\ config[i] = tmp[j] /\ config[k] = tmp[m]
      /\ \A i \in 1..seen : config[i].alias # alias =>
           Has(tmp, config[i]) \/ OpenAbove(config, alias, i)
      /\ Led(tmp)
      /\ seen > 0 /\ ~skip /\ config[seen] # End(alias) =>
           tmp # <<>> /\ tmp[Len(tmp)] = config[seen]
      /\ skip => \E i \in 1..seen : config[i] = Begin(alias)
                                    /\ \A j \in i..seen : config[j] # End(alias)
      /\ ~skip => \A i \in 1..seen : config[i] = Begin(alias) =>
                    \E j \in i..seen : config[j] = End(alias)
  BY <1>1 DEF Copied
<1> HIDE DEF n, line
<1>l. line = config[n] /\ n = seen + 1
  BY DEF line, n
<1>4. \A j \in DOMAIN tmp' : tmp'[j].alias # alias /\ \E i \in 1..n : config[i] = tmp'[j]
  <2> SUFFICES ASSUME NEW j \in DOMAIN tmp'
               PROVE  tmp'[j].alias # alias /\ \E i \in 1..n : config[i] = tmp'[j]
    OBVIOUS
  <2>1. CASE j \in DOMAIN tmp
    <3>1. tmp'[j] = tmp[j]
      BY <1>1, <1>3, <2>1
    <3>2. tmp[j].alias # alias /\ \E i \in 1..seen : config[i] = tmp[j]
      BY <2>1, <1>c
    <3>3. 1..seen \subseteq 1..n
      BY <1>2, <1>l
    <3> QED
      BY <3>1, <3>2, <3>3
  <2>2. CASE ~dropped /\ j = Len(tmp) + 1
    BY <1>1, <1>2, <1>3, <1>l, <2>2
  <2>3. j \in DOMAIN tmp \/ (~dropped /\ j = Len(tmp) + 1)
    BY <1>1, <1>3
  <2> QED
    BY <2>1, <2>2, <2>3
<1>5. \A j, m \in DOMAIN tmp' :
        j < m => \E i, k \in 1..n : i < k /\ config[i] = tmp'[j] /\ config[k] = tmp'[m]
  <2> SUFFICES ASSUME NEW j \in DOMAIN tmp', NEW m \in DOMAIN tmp', j < m
               PROVE  \E i, k \in 1..n : i < k /\ config[i] = tmp'[j] /\ config[k] = tmp'[m]
    OBVIOUS
  <2>1. CASE m \in DOMAIN tmp /\ j \in DOMAIN tmp
    <3>1. PICK i \in 1..seen, k \in 1..seen : i < k /\ config[i] = tmp[j] /\ config[k] = tmp[m]
      BY <2>1, <1>c
    <3>2. tmp'[j] = tmp[j] /\ tmp'[m] = tmp[m] /\ i \in 1..n /\ k \in 1..n
      BY <1>1, <1>2, <1>3, <2>1
    <3> QED
      BY <3>1, <3>2
  <2>2. CASE ~dropped /\ m = Len(tmp) + 1
    <3>1. j \in DOMAIN tmp
      BY <1>3, <2>2
    <3>2. PICK i \in 1..seen : config[i] = tmp[j]
      BY <3>1, <1>c
    <3>3. i < n /\ i \in 1..n /\ n \in 1..n
      BY <1>2, <1>l
    <3> QED
      BY <1>3, <1>l, <2>2, <3>1, <3>2, <3>3
  <2>3. j \in DOMAIN tmp \/ j = Len(tmp) + 1
    BY <1>1, <1>3
  <2> QED
    BY <1>1, <1>3, <2>1, <2>2
<1>6. ASSUME NEW i \in 1..n, config[i].alias # alias
      PROVE  Has(tmp', config[i]) \/ OpenAbove(config, alias, i)
  <2>1. CASE i \in 1..seen
    <3>1. Has(tmp, config[i]) => Has(tmp', config[i])
      BY <1>1, <1>3 DEF Has
    <3> QED
      BY <1>6, <2>1, <3>1, <1>c
  <2>2. CASE i = n /\ dropped
    BY <1>1, <1>6, <1>l, <2>2
  <2>3. CASE i = n /\ ~dropped
    BY <1>3, <1>l, <2>3 DEF Has
  <2> QED
    BY <1>2, <2>1, <2>2, <2>3
<1>7. Led(tmp')
  <2>1. CASE dropped
    BY <1>1, <1>c, <2>1
  <2>2. CASE ~dropped
    <3>1. ASSUME NEW a \in Aliases
          PROVE  /\ line = Body(a) => tmp # <<>> /\ tmp[Len(tmp)] = Begin(a)
                 /\ line = End(a) => tmp # <<>> /\ tmp[Len(tmp)] = Body(a)
      <4>1. /\ line = Body(a) => seen > 0 /\ config[seen] = Begin(a)
            /\ line = End(a) => seen > 0 /\ config[seen] = Body(a)
        <5>1. /\ line = Body(a) => n > 1 /\ config[n - 1] = Begin(a)
              /\ line = End(a) => n > 1 /\ config[n - 1] = Body(a)
          BY <1>1, <1>l DEF File, Led
        <5>2. n - 1 = seen /\ (n > 1 => seen > 0)
          BY <1>2, <1>l
        <5> QED
          BY <5>1, <5>2
      <4>2. line \in {Body(a), End(a)} => a # alias
        BY <1>1, <2>2, Kinds
      <4>3. line \in {Body(a), End(a)} => config[seen] # End(alias)
        BY <1>1, <4>1, <4>2, Kinds
      <4> QED
        BY <1>c, <2>2, <4>1, <4>3
    <3> QED
      BY <1>1, <1>2, <1>c, <2>2, <3>1, AppendLed
  <2> QED
    BY <2>1, <2>2
<1>8. ~skip' /\ config[n] # End(alias) => tmp' # <<>> /\ tmp'[Len(tmp')] = config[n]
  BY <1>1, <1>3, <1>l
<1>9. ASSUME skip'
      PROVE  \E i \in 1..n : config[i] = Begin(alias) /\ \A j \in i..n : config[j] # End(alias)
  <2>1. CASE line = Begin(alias)
    BY <1>1, <1>2, <1>l, <2>1, Kinds
  <2>2. CASE skip
    <3>1. PICK i \in 1..seen : config[i] = Begin(alias) /\ \A j \in i..seen : config[j] # End(alias)
      BY <2>2, <1>c
    <3>2. \A j \in i..n : j \in i..seen \/ j = n
      BY <1>2, <1>l
    <3> QED
      BY <1>1, <1>2, <1>9, <1>l, <3>1, <3>2
  <2> QED
    BY <1>1, <1>9, <2>1, <2>2
<1>10. ASSUME ~skip', NEW i \in 1..n, config[i] = Begin(alias)
       PROVE  \E j \in i..n : config[j] = End(alias)
  <2>1. CASE line = End(alias)
    BY <1>2, <1>l, <2>1
  <2>2. CASE ~dropped
    <3>1. i \in 1..seen
      BY <1>2, <1>10, <1>l, <2>2
    <3>2. PICK j \in i..seen : config[j] = End(alias)
      BY <1>10, <2>2, <3>1, <1>c
    <3> QED
      BY <1>2, <1>l, <3>2
  <2> QED
    BY <1>1, <1>10, <2>1, <2>2
<1> QED
  BY <1>1, <1>2, <1>4, <1>5, <1>6, <1>7, <1>8, <1>9, <1>10 DEF Copied

LEMMA NextCopied ==
  ASSUME TypeOK, File, Copied, [Next]_vars
  PROVE  Copied'
<1>1. ASSUME NEW u \in UserLines, UserWrites(u) PROVE Copied'
  BY <1>1 DEF UserWrites, runVars, Copied
<1>2. ASSUME NEW a \in Aliases, Starts(a) PROVE Copied'
  <2>1. /\ tmp' = <<>> /\ seen' = 0 /\ skip' = FALSE /\ step' = "filter" /\ Len(config') \in Nat
    BY <1>2 DEF Starts, TypeOK
  <2> QED
    BY <2>1 DEF Copied, Led
<1>3. CASE Filter
  BY <1>3, FilterCopied
<1>4. CASE FilterEnds
  <2>1. UNCHANGED <<config, tmp, seen, skip, alias>> /\ step = "filter" /\ seen = Len(config)
    BY <1>4 DEF FilterEnds, awkVars
  <2> QED
    BY <2>1 DEF Copied
<1>5. CASE RemovalFails \/ Move \/ WriteLine \/ Crash
  <2>1. step' \notin {"filter", "move"}
    BY <1>5 DEF RemovalFails, Move, WriteLine, Crash, Following
  <2> QED
    BY <2>1 DEF Copied
<1>6. CASE UNCHANGED vars
  BY <1>6 DEF vars, awkVars, runVars, Copied
<1> QED
  BY <1>1, <1>2, <1>3, <1>4, <1>5, <1>6 DEF Next
-----------------------------------------------------------------------------
(* Without kills.                                                          *)

(* Then no block is open while awk reads.                                  *)
LEMMA NothingOpen ==
  ASSUME TypeOK, Whole, ~killed, step \notin {"body", "end"},
         NEW a \in Aliases, NEW i \in DOMAIN config
  PROVE  Closed(config, i, a) /\ ~OpenAbove(config, a, i)
<1>1. \A j \in DOMAIN config : Closed(config, j, a)
  BY DEF Whole
<1>2. DOMAIN config = 1..Len(config) /\ Len(config) \in Nat
  BY DEF TypeOK
<1>3. ASSUME NEW b \in 1..(i - 1), config[b] = Begin(a)
      PROVE  \E j \in b..Len(config) : config[j] = End(a)
  <2>1. b \in DOMAIN config /\ b \in Nat
    BY <1>2
  <2>2. b + 1 \in DOMAIN config /\ config[b + 1] = Body(a)
    BY <1>1, <1>2, <1>3, <2>1 DEF Closed
  <2>3. b + 1 < Len(config) /\ config[(b + 1) + 1] = End(a)
    BY <1>1, <2>2 DEF Closed
  <2>4. (b + 1) + 1 = b + 2 /\ b + 2 \in b..Len(config)
    BY <1>2, <2>1, <2>3
  <2> QED
    BY <2>3, <2>4
<1> QED
  BY <1>1, <1>3 DEF OpenAbove

(* Appending a line leaves those before the last as closed as they were,   *)
(* and the last one if it is neither opening nor body.                     *)
LEMMA AppendClosed ==
  ASSUME NEW s \in Seq(Lines), NEW l \in Lines, NEW i \in DOMAIN s, NEW a \in Aliases
  PROVE  /\ Closed(s, i, a) => Closed(Append(s, l), i, a)
         /\ i = Len(s) /\ s[i] = Begin(a) /\ l = Body(a) => Closed(Append(s, l), i, a)
         /\ i = Len(s) /\ s[i] = Body(a) /\ l = End(a) => Closed(Append(s, l), i, a)
<1> DEFINE t == Append(s, l)
<1>1. /\ Len(s) \in Nat /\ Len(t) = Len(s) + 1 /\ DOMAIN s = 1..Len(s)
      /\ t[Len(s) + 1] = l /\ \A j \in DOMAIN s : t[j] = s[j]
  BY Appended
<1> HIDE DEF t
<1>2. Closed(s, i, a) => Closed(t, i, a)
  BY <1>1 DEF Closed
<1>3. i = Len(s) => t[i] = s[i] /\ i < Len(t) /\ t[i + 1] = l
  BY <1>1
<1> QED
  BY <1>2, <1>3, Kinds DEF Closed, t

LEMMA FilterWhole ==
  ASSUME TypeOK, File, Copied, Whole, Filter, ~killed
  PROVE  \A j \in DOMAIN tmp', a \in Aliases :
           Closed(tmp', j, a) \/ (j = Len(tmp') /\ seen' > 0 /\ ~skip' /\ config[seen'] = tmp'[j])
<1> DEFINE n == seen + 1
           line == config[n]
           dropped == skip \/ line = Begin(alias)
<1>1. /\ n \in DOMAIN config /\ line \in Lines /\ alias \in Aliases
      /\ seen' = n /\ step = "filter"
      /\ dropped => tmp' = tmp
      /\ ~dropped => tmp' = Append(tmp, line)
      /\ skip' <=> dropped /\ line # End(alias)
  BY Reads
<1>2. tmp \in Seq(Lines) /\ seen \in Nat /\ DOMAIN config = 1..Len(config) /\ Len(config) \in Nat
  BY DEF TypeOK
<1> SUFFICES ASSUME NEW j \in DOMAIN tmp', NEW a \in Aliases
             PROVE  Closed(tmp', j, a)
                    \/ (j = Len(tmp') /\ seen' > 0 /\ ~skip' /\ config[seen'] = tmp'[j])
  OBVIOUS
<1>3. ASSUME NEW i \in DOMAIN tmp
      PROVE  Closed(tmp, i, a) \/ (i = Len(tmp) /\ seen > 0 /\ ~skip /\ config[seen] = tmp[i])
  BY <1>1 DEF Whole
<1>4. seen > 0 => /\ config[seen] = Begin(a) => line = Body(a)
                  /\ config[seen] = Body(a) => line = End(a)
  <2>1. seen > 0 => seen \in DOMAIN config
    BY <1>1, <1>2
  <2>2. seen > 0 => Closed(config, seen, a)
    BY <1>1, <2>1 DEF Whole
  <2> QED
    BY <2>2 DEF Closed
<1> HIDE DEF n, line
<1>l. line = config[n] /\ n = seen + 1
  BY DEF line, n
<1>k. Begin(alias) # Body(a) /\ Begin(alias) # End(a)
  BY <1>1, Kinds DEF Begin, Body, End, Line
<1>5. CASE dropped
  <2>1. Closed(tmp, j, a) \/ (j = Len(tmp) /\ seen > 0 /\ ~skip /\ config[seen] = tmp[j])
    BY <1>1, <1>3, <1>5
  <2>2. ASSUME seen > 0, ~skip, config[seen] = tmp[j] PROVE Closed(tmp, j, a)
    BY <1>4, <1>5, <1>k, <2>2 DEF Closed
  <2> QED
    BY <1>1, <1>5, <2>1, <2>2
<1>6. CASE ~dropped
  <2>0. /\ Len(tmp) \in Nat /\ Len(tmp') = Len(tmp) + 1
        /\ DOMAIN tmp = 1..Len(tmp) /\ DOMAIN tmp' = 1..(Len(tmp) + 1)
        /\ tmp'[Len(tmp) + 1] = line
    BY <1>1, <1>2, <1>6, Appended
  <2>1. CASE j = Len(tmp) + 1
    <3>1. ~skip' /\ seen' > 0
      BY <1>1, <1>2, <1>6, <1>l
    <3> QED
      BY <1>1, <1>l, <2>0, <2>1, <3>1
  <2>2. CASE j \in DOMAIN tmp
    <3>1. CASE Closed(tmp, j, a)
      BY <1>1, <1>2, <1>6, <2>2, <3>1, AppendClosed
    <3>2. CASE j = Len(tmp) /\ seen > 0 /\ config[seen] = tmp[j]
      <4>1. CASE tmp[j] \in {Begin(a), Body(a)}
        BY <1>1, <1>2, <1>4, <1>6, <2>2, <3>2, <4>1, AppendClosed
      <4>2. CASE tmp[j] \notin {Begin(a), Body(a)}
        BY <3>1, <4>2 DEF Closed
      <4> QED
        BY <4>1, <4>2
    <3> QED
      BY <1>3, <2>2, <3>1, <3>2
  <2> QED
    BY <2>0, <2>1, <2>2
<1> QED
  BY <1>5, <1>6

LEMMA MoveWhole ==
  ASSUME TypeOK, File, Copied, Whole, Move, ~killed
  PROVE  Whole'
<1>1. /\ config' = tmp /\ mine' = mine /\ wanted' = wanted \ {alias} /\ killed' = killed
      /\ step = "move" /\ step' \in {"begin", "idle"} /\ alias \in Aliases
  BY DEF Move, File
<1>2. /\ 1..seen = DOMAIN config /\ DOMAIN config = 1..Len(config) /\ seen = Len(config)
      /\ Len(config) \in Nat
  BY <1>1 DEF Copied, TypeOK
<1>3. ASSUME NEW i \in DOMAIN config, config[i].alias # alias PROVE Has(tmp, config[i])
  BY <1>1, <1>2, <1>3, NothingOpen DEF Copied
<1>4. ASSUME NEW k \in DOMAIN mine PROVE Has(tmp, mine[k])
  <2>1. PICK i \in DOMAIN config : config[i] = mine[k]
    BY <1>1 DEF Whole, Has
  <2>2. config[i].alias # alias
    BY <1>1, <2>1 DEF File
  <2> QED
    BY <1>3, <2>1, <2>2
<1>5. ASSUME NEW a \in Aliases PROVE a \in wanted' <=> Has(tmp, Begin(a))
  <2>0. a \in wanted <=> Has(config, Begin(a))
    BY <1>1 DEF Whole
  <2>1. CASE a = alias
    BY <1>1, <2>1, Kinds DEF Copied, Has
  <2>2. CASE a # alias
    <3>1. ASSUME Has(config, Begin(a)) PROVE Has(tmp, Begin(a))
      <4>1. PICK i \in DOMAIN config : config[i] = Begin(a)
        BY <3>1 DEF Has
      <4> QED
        BY <1>3, <2>2, <4>1, Kinds
    <3>2. ASSUME Has(tmp, Begin(a)) PROVE Has(config, Begin(a))
      <4>1. PICK j \in DOMAIN tmp : tmp[j] = Begin(a)
        BY <3>2 DEF Has
      <4>2. PICK i \in 1..seen : config[i] = tmp[j]
        BY <1>1, <4>1 DEF Copied
      <4> QED
        BY <1>2, <4>1, <4>2 DEF Has
    <3> QED
      BY <1>1, <2>0, <2>2, <3>1, <3>2
  <2> QED
    BY <2>1, <2>2
<1>6. ASSUME NEW j \in DOMAIN tmp, NEW a \in Aliases PROVE Closed(tmp, j, a)
  <2>1. Closed(tmp, j, a) \/ (seen > 0 /\ config[seen] = tmp[j])
    BY <1>1 DEF Whole
  <2>2. ASSUME seen > 0, config[seen] = tmp[j] PROVE Closed(tmp, j, a)
    <3>1. seen \in DOMAIN config /\ ~(seen < Len(config))
      BY <1>2, <2>2
    <3>2. Closed(config, seen, a)
      BY <1>1, <3>1 DEF Whole
    <3> QED
      BY <2>2, <3>1, <3>2 DEF Closed
  <2> QED
    BY <2>1, <2>2
<1> QED
  BY <1>1, <1>4, <1>5, <1>6 DEF Whole

LEMMA WriteWhole ==
  ASSUME TypeOK, File, Whole, WriteLine, ~killed
  PROVE  Whole'
<1> DEFINE l == Line(step, alias)
<1>1. /\ config' = Append(config, l) /\ mine' = mine /\ wanted' = wanted \cup {alias}
      /\ killed' = killed /\ alias' = alias /\ alias \in Aliases /\ l \in Lines /\ l.alias = alias
  BY Written DEF WriteLine
<1>2. /\ step = "begin" => l = Begin(alias) /\ step' = "body"
      /\ step = "body" => l = Body(alias) /\ step' = "end"
      /\ step = "end" => l = End(alias) /\ step' = "idle"
      /\ step \in {"begin", "body", "end"}
  BY Written
<1> HIDE DEF l
<1>3. /\ config \in Seq(Lines) /\ Len(config) \in Nat /\ Len(config') = Len(config) + 1
      /\ DOMAIN config = 1..Len(config) /\ DOMAIN config' = 1..(Len(config) + 1)
      /\ config'[Len(config) + 1] = l /\ \A i \in DOMAIN config : config'[i] = config[i]
  BY <1>1, Appended DEF TypeOK
<1>w. /\ \A k \in DOMAIN mine : Has(config, mine[k])
      /\ \A a \in Aliases : a \in wanted <=> Has(config, Begin(a))
      /\ \A i \in DOMAIN config, a \in Aliases :
           Closed(config, i, a) \/ (step \in {"body", "end"} /\ i = Len(config) /\ a = alias)
  BY DEF Whole
<1>4. \A x \in Lines : Has(config', x) <=> Has(config, x) \/ x = l
  BY <1>1, <1>3 DEF Has
<1>5. \A k \in DOMAIN mine' : Has(config', mine'[k])
  BY <1>1, <1>4, <1>w DEF TypeOK
<1>6. ASSUME NEW a \in Aliases PROVE a \in wanted' <=> Has(config', Begin(a))
  <2>1. CASE a # alias
    BY <1>1, <1>4, <1>w, <2>1, Kinds
  <2>2. Has(config', Begin(alias))
    <3>1. CASE step = "begin"
      BY <1>2, <1>3, <3>1 DEF Has
    <3>2. CASE step = "body"
      <4>1. Len(config) \in DOMAIN config /\ config[Len(config)] = Begin(alias)
        BY <1>3, <3>2 DEF File
      <4> QED
        BY <1>3, <4>1 DEF Has
    <3>3. CASE step = "end"
      <4>1. Len(config) \in DOMAIN config /\ config[Len(config)] = Body(alias)
        BY <1>3, <3>3 DEF File
      <4>2. Len(config) > 1 /\ config[Len(config) - 1] = Begin(alias)
        BY <1>1, <4>1 DEF File, Led
      <4>3. Len(config) - 1 \in DOMAIN config
        BY <1>3, <4>2
      <4> QED
        BY <1>3, <4>2, <4>3 DEF Has
    <3> QED
      BY <1>2, <3>1, <3>2, <3>3
  <2> QED
    BY <1>1, <2>1, <2>2
<1>7. ASSUME NEW i \in DOMAIN config', NEW a \in Aliases
      PROVE  Closed(config', i, a) \/ (step' \in {"body", "end"} /\ i = Len(config') /\ a = alias)
  <2>1. CASE i = Len(config) + 1
    <3>1. a # alias \/ step = "end" => l # Begin(a) /\ l # Body(a)
      BY <1>1, <1>2, Kinds
    <3>2. l # Begin(a) /\ l # Body(a) => Closed(config', i, a)
      BY <1>3, <2>1 DEF Closed
    <3> QED
      BY <1>2, <1>3, <2>1, <3>1, <3>2
  <2>2. CASE i \in DOMAIN config
    <3>1. CASE Closed(config, i, a)
      BY <1>1, <1>3, <2>2, <3>1, AppendClosed
    <3>2. CASE step \in {"body", "end"} /\ i = Len(config) /\ a = alias
      <4>1. /\ step = "body" => config[i] = Begin(a) /\ l = Body(a)
            /\ step = "end" => config[i] = Body(a) /\ l = End(a)
        BY <1>2, <3>2 DEF File
      <4> QED
        BY <1>1, <1>3, <2>2, <3>2, <4>1, AppendClosed
    <3> QED
      BY <1>w, <2>2, <3>1, <3>2
  <2> QED
    BY <1>3, <2>1, <2>2
<1>8. step' \notin {"filter", "move"}
  BY <1>2
<1> QED
  BY <1>1, <1>5, <1>6, <1>7, <1>8 DEF Whole

LEMMA NextWhole ==
  ASSUME TypeOK, File, Copied, Whole, [Next]_vars
  PROVE  Whole'
<1> SUFFICES ASSUME ~killed' PROVE Whole'
  BY DEF Whole
<1>1. ASSUME NEW u \in UserLines, UserWrites(u) PROVE Whole'
  <2> DEFINE l == Line(u, NoAlias)
  <2>1. /\ config' = Append(config, l) /\ mine' = Append(mine, l) /\ wanted' = wanted
        /\ step = "idle" /\ step' = "idle" /\ ~killed /\ l \in Lines /\ l.alias = NoAlias
    BY <1>1, UserKind DEF UserWrites, runVars
  <2> HIDE DEF l
  <2>2. config \in Seq(Lines) /\ mine \in Seq(Lines)
    BY DEF TypeOK
  <2>3. /\ Len(config) \in Nat /\ DOMAIN config = 1..Len(config)
        /\ DOMAIN config' = 1..(Len(config) + 1) /\ config'[Len(config) + 1] = l
        /\ \A i \in DOMAIN config : config'[i] = config[i]
    BY <2>1, <2>2, Appended
  <2>4. /\ Len(mine) \in Nat /\ DOMAIN mine = 1..Len(mine)
        /\ DOMAIN mine' = 1..(Len(mine) + 1) /\ mine'[Len(mine) + 1] = l
        /\ \A i \in DOMAIN mine : mine'[i] = mine[i]
    BY <2>1, <2>2, Appended
  <2>w. /\ \A k \in DOMAIN mine : Has(config, mine[k])
        /\ \A a \in Aliases : a \in wanted <=> Has(config, Begin(a))
        /\ \A i \in DOMAIN config, a \in Aliases : Closed(config, i, a)
    BY <2>1 DEF Whole
  <2>5. \A k \in DOMAIN mine' : Has(config', mine'[k])
    <3>1. \A k \in DOMAIN mine : Has(config', mine[k])
      BY <2>3, <2>w DEF Has
    <3>2. Has(config', l)
      BY <2>3 DEF Has
    <3> QED
      BY <2>4, <3>1, <3>2
  <2>6. ASSUME NEW a \in Aliases PROVE l # Begin(a) /\ l # Body(a)
    BY <2>1, Kinds
  <2>7. ASSUME NEW a \in Aliases PROVE a \in wanted' <=> Has(config', Begin(a))
    <3>1. Has(config', Begin(a)) <=> Has(config, Begin(a))
      BY <2>3, <2>6 DEF Has
    <3> QED
      BY <2>1, <2>w, <3>1
  <2>8. ASSUME NEW i \in DOMAIN config', NEW a \in Aliases PROVE Closed(config', i, a)
    <3>1. CASE i = Len(config) + 1
      BY <2>3, <2>6, <3>1 DEF Closed
    <3>2. CASE i \in DOMAIN config
      BY <2>1, <2>2, <2>w, <3>2, AppendClosed
    <3> QED
      BY <2>3, <3>1, <3>2
  <2> QED
    BY <2>1, <2>5, <2>7, <2>8 DEF Whole
<1>2. ASSUME NEW x \in Aliases, Starts(x) PROVE Whole'
  <2>1. /\ UNCHANGED <<config, mine, wanted, killed>> /\ step = "idle" /\ tmp' = <<>>
    BY <1>2 DEF Starts, histVars
  <2> QED
    BY <2>1 DEF Whole
<1>3. CASE Filter
  <2>1. UNCHANGED <<config, mine, wanted, killed, alias>> /\ step = "filter" /\ step' = "filter"
    BY <1>3 DEF Filter, runVars, histVars
  <2> QED
    BY <1>3, <2>1, FilterWhole DEF Whole
<1>4. CASE FilterEnds \/ RemovalFails
  <2>1. /\ UNCHANGED <<config, mine, wanted, killed, alias, tmp, seen, skip>>
        /\ step \in {"filter", "move"} /\ step' \in {"idle", "move"}
    BY <1>4 DEF FilterEnds, RemovalFails, awkVars, histVars
  <2> QED
    BY <2>1 DEF Whole
<1>5. CASE Move
  BY <1>5, MoveWhole DEF Move
<1>6. CASE WriteLine
  BY <1>6, WriteWhole DEF WriteLine
<1>7. CASE Crash
  BY <1>7 DEF Crash
<1>8. CASE UNCHANGED vars
  BY <1>8 DEF vars, awkVars, runVars, histVars, Whole
<1> QED
  BY <1>1, <1>2, <1>3, <1>4, <1>5, <1>6, <1>7, <1>8 DEF Next

-----------------------------------------------------------------------------
(* The theorems.                                                           *)

(* The file, awk's copy of it and the blocks are as IInv says.             *)
THEOREM Invariance == Spec => []IInv
<1>1. Init => IInv
  <2> SUFFICES ASSUME Init PROVE IInv
    OBVIOUS
  <2>1. TypeOK
    <3>1. /\ config \in Seq(Lines) /\ tmp \in Seq(Lines) /\ mine \in Seq(Lines)
          /\ seen \in Nat /\ wanted \subseteq Aliases /\ alias \in Aliases \cup {NoAlias}
          /\ step \in {"idle", "filter", "move"} \cup DOMAIN Following
      BY DEF Init
    <3>2. skip \in BOOLEAN /\ adding \in BOOLEAN /\ killed \in BOOLEAN
      BY DEF Init
    <3> QED
      BY <3>1, <3>2 DEF TypeOK
  <2>2. File
    BY DEF Init, File, Distinct, Led, InOrder, UsersOwn
  <2>3. Copied /\ Whole
    BY DEF Init, Copied, Whole, Has
  <2> QED
    BY <2>1, <2>2, <2>3 DEF IInv
<1>2. IInv /\ [Next]_vars => IInv'
  BY NextType, NextFile, NextCopied, NextWhole DEF IInv
<1> QED
  BY <1>1, <1>2, PTL DEF Spec

(* Without kills, the user's lines are in the file, in their order.        *)
THEOREM UserLinesAreKept == Spec => []UserLinesKept
<1>1. ASSUME IInv, ~killed
      PROVE  \E at \in [DOMAIN mine -> DOMAIN config] :
               /\ UsersOwn(config) = {at[k] : k \in DOMAIN mine}
               /\ \A k \in DOMAIN mine : config[at[k]] = mine[k]
               /\ \A k, m \in DOMAIN mine : k < m => at[k] < at[m]
  <2> DEFINE at == [k \in DOMAIN mine |-> CHOOSE i \in DOMAIN config : config[i] = mine[k]]
  <2>1. \A k \in DOMAIN mine : at[k] \in DOMAIN config /\ config[at[k]] = mine[k]
    BY <1>1 DEF IInv, Whole, Has
  <2>2. at \in [DOMAIN mine -> DOMAIN config]
    BY <2>1
  <2> HIDE DEF at
  <2>t. DOMAIN mine \subseteq Nat /\ DOMAIN config \subseteq Nat
    BY <1>1 DEF IInv, TypeOK
  <2>f. /\ Distinct(config) /\ Distinct(mine) /\ InOrder
        /\ \A k \in DOMAIN mine : mine[k].alias = NoAlias
    BY <1>1 DEF IInv, File
  <2>3. \A k \in DOMAIN mine : at[k] \in UsersOwn(config)
    BY <2>1, <2>f DEF UsersOwn
  <2>4. ASSUME NEW j \in UsersOwn(config) PROVE \E k \in DOMAIN mine : j = at[k]
    <3>1. PICK k \in DOMAIN mine : mine[k] = config[j]
      BY <2>f DEF InOrder, Has
    <3>2. j \in DOMAIN config
      BY DEF UsersOwn
    <3> QED
      BY <2>1, <2>f, <3>1, <3>2 DEF Distinct
  <2>5. ASSUME NEW k \in DOMAIN mine, NEW m \in DOMAIN mine, k < m PROVE at[k] < at[m]
    <3>1. at[k] # at[m]
      BY <2>1, <2>f, <2>t, <2>5 DEF Distinct
    <3>2. ASSUME at[m] < at[k] PROVE FALSE
      <4>1. PICK p \in DOMAIN mine, q \in DOMAIN mine :
                  p < q /\ mine[p] = config[at[m]] /\ mine[q] = config[at[k]]
        BY <2>3, <2>f, <3>2 DEF InOrder
      <4>2. p = m /\ q = k
        BY <2>1, <2>f, <4>1 DEF Distinct
      <4> QED
        BY <2>5, <2>t, <4>1, <4>2
    <3> QED
      BY <2>1, <2>t, <3>1, <3>2
  <2> QED
    BY <2>1, <2>2, <2>3, <2>4, <2>5
<1>2. IInv => UserLinesKept
  BY <1>1 DEF UserLinesKept
<1> QED
  BY <1>2, Invariance, PTL

(* Without kills, an alias has one whole block between two runs, or none.  *)
THEOREM BlocksAreWhole == Spec => []OneBlockEach
<1>1. ASSUME IInv, ~killed, step = "idle", NEW a \in Aliases
      PROVE  LET own == {i \in DOMAIN config : config[i].alias = a} IN
               IF a \in wanted THEN \E i \in own : own = i..(i + 2) /\ BlockAt(a, i)
                               ELSE own = {}
  <2> DEFINE own == {i \in DOMAIN config : config[i].alias = a}
  <2>t. /\ DOMAIN config = 1..Len(config) /\ Len(config) \in Nat
        /\ \A i \in DOMAIN config : config[i] \in Lines
    BY <1>1 DEF IInv, TypeOK
  <2>f. Distinct(config) /\ Led(config)
    BY <1>1 DEF IInv, File
  <2>1. \A i \in DOMAIN config : Closed(config, i, a)
    BY <1>1 DEF IInv, Whole
  <2>2. a \in wanted <=> Has(config, Begin(a))
    BY <1>1 DEF IInv, Whole
  <2>3. ASSUME NEW k \in own
        PROVE  \E i \in DOMAIN config : config[i] = Begin(a) /\ k \in {i, i + 1, i + 2}
    <3>1. k \in DOMAIN config /\ config[k] \in {Begin(a), Body(a), End(a)}
      BY <2>t, OfAlias
    <3>2. CASE config[k] = Begin(a)
      BY <3>1, <3>2
    <3>3. CASE config[k] = Body(a)
      <4>1. k > 1 /\ config[k - 1] = Begin(a)
        BY <2>f, <3>1, <3>3 DEF Led
      <4>2. k - 1 \in DOMAIN config /\ k = (k - 1) + 1
        BY <2>t, <3>1, <4>1
      <4> QED
        BY <4>1, <4>2
    <3>4. CASE config[k] = End(a)
      <4>1. k > 1 /\ config[k - 1] = Body(a)
        BY <2>f, <3>1, <3>4 DEF Led
      <4>2. k - 1 \in DOMAIN config
        BY <2>t, <3>1, <4>1
      <4>3. k - 1 > 1 /\ config[(k - 1) - 1] = Begin(a)
        BY <2>f, <4>1, <4>2 DEF Led
      <4>4. (k - 1) - 1 \in DOMAIN config /\ k = ((k - 1) - 1) + 2
        BY <2>t, <3>1, <4>3
      <4> QED
        BY <4>3, <4>4
    <3> QED
      BY <3>1, <3>2, <3>3, <3>4
  <2>4. ASSUME NEW i \in DOMAIN config, config[i] = Begin(a)
        PROVE  i \in own /\ own = i..(i + 2) /\ BlockAt(a, i)
    <3>1. i + 1 \in DOMAIN config /\ config[i + 1] = Body(a)
      BY <2>1, <2>4, <2>t DEF Closed
    <3>2. i + 1 < Len(config) /\ config[(i + 1) + 1] = End(a)
      BY <2>1, <3>1 DEF Closed
    <3>3. (i + 1) + 1 = i + 2 /\ i + 2 \in DOMAIN config
      BY <2>t, <3>1, <3>2
    <3>4. {i, i + 1, i + 2} \subseteq own
      BY <2>4, <3>1, <3>2, <3>3, Kinds
    <3>5. own \subseteq {i, i + 1, i + 2}
      BY <2>3, <2>4, <2>f DEF Distinct
    <3>6. i..(i + 2) = {i, i + 1, i + 2}
      BY <2>t
    <3> QED
      BY <2>4, <3>1, <3>2, <3>3, <3>4, <3>5, <3>6 DEF BlockAt
  <2> HIDE DEF own
  <2>5. IF a \in wanted THEN \E i \in own : own = i..(i + 2) /\ BlockAt(a, i) ELSE own = {}
    BY <2>2, <2>3, <2>4 DEF Has
  <2> QED
    BY <2>5 DEF own
<1>2. IInv => OneBlockEach
  BY <1>1 DEF OneBlockEach
<1> QED
  BY <1>2, Invariance, PTL

(* Kills included, a run takes away no user's line but those behind a      *)
(* block of its own alias that a killed run left open.                     *)
THEOREM LossIsBehindTears == Spec => LostOnlyBehindTear
<1>1. ASSUME IInv, [Next]_vars, NEW i \in UsersOwn(config), ~Has(config', config[i])
      PROVE  OpenAbove(config, alias, i)
  <2>1. i \in DOMAIN config /\ config[i].alias = NoAlias /\ config \in Seq(Lines)
    BY <1>1 DEF UsersOwn, IInv, TypeOK
  <2>2. ASSUME NEW l \in Lines, config' = Append(config, l) PROVE FALSE
    <3>1. i \in DOMAIN config' /\ config'[i] = config[i]
      BY <2>1, <2>2, Appended
    <3> QED
      BY <1>1, <3>1 DEF Has
  <2>3. ASSUME config' = config PROVE FALSE
    BY <1>1, <2>1, <2>3 DEF Has
  <2>4. CASE Move
    <3>1. step = "move" /\ config' = tmp /\ alias \in Aliases
      BY <1>1, <2>4 DEF Move, IInv, File
    <3>2. i \in 1..seen /\ config[i].alias # alias
      BY <1>1, <2>1, <3>1 DEF IInv, Copied
    <3> QED
      BY <1>1, <3>1, <3>2 DEF IInv, Copied
  <2>5. ASSUME NEW u \in UserLines, UserWrites(u) PROVE FALSE
    BY <2>2, <2>5, UserKind DEF UserWrites
  <2>6. CASE WriteLine
    BY <1>1, <2>2, <2>6, Written DEF WriteLine, IInv
  <2>7. ASSUME NEW a \in Aliases, Starts(a) PROVE FALSE
    BY <2>3, <2>7 DEF Starts
  <2>8. CASE Filter \/ FilterEnds \/ RemovalFails \/ Crash \/ UNCHANGED vars
    BY <2>3, <2>8 DEF Filter, FilterEnds, RemovalFails, Crash, vars
  <2> QED
    BY <1>1, <2>4, <2>5, <2>6, <2>7, <2>8 DEF Next
<1>2. IInv /\ [Next]_vars =>
        [\A i \in UsersOwn(config) : ~Has(config', config[i]) => OpenAbove(config, alias, i)]_vars
  BY <1>1
<1> QED
  BY <1>2, Invariance, PTL DEF Spec, LostOnlyBehindTear
=============================================================================
