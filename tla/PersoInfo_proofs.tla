--------------------------- MODULE PersoInfo_proofs ---------------------------
(***************************************************************************)
(* Theorems about PersoInfo: its type, the agreement of the packed fields  *)
(* with the authorisation table, and the protection of zone accesses, for  *)
(* every number of commands and every table.                               *)
(***************************************************************************)
EXTENDS PersoInfo, TLAPS

(***************************************************************************)
(* The packed fields                                                       *)
(***************************************************************************)

\* Storing an access condition changes its own field, and at most the low bit
\* of the next one, which FREE has set already.
LEMMA SetACFields ==
    ASSUME NEW w \in WordSets, NEW code \in Codes, NEW AC \in AccessConditions
    PROVE  /\ SetAC(w, code, AC) \in WordSets
           /\ SetAC(w, code, AC).cmd = w.cmd
           /\ SetAC(w, code, AC).rsp = w.rsp
           /\ AC <= 3 => SetAC(w, code, AC).AC[code] = AC
           /\ \A c \in Codes \ {code} :
                 /\ c # code + 1 \/ AC <= 3 => SetAC(w, code, AC).AC[c] = w.AC[c]
                 /\ w.AC[c] = FREE => SetAC(w, code, AC).AC[c] = FREE
<1> DEFINE v == SetAC(w, code, AC)
           field(c) == IF c = code THEN AC % 4
                       ELSE IF c = code + 1 THEN OrLowBit(w.AC[c], AC \div 4)
                       ELSE w.AC[c]
<1>1. /\ w.AC \in [Codes -> 0..3] /\ w.cmd \subseteq Codes /\ w.rsp \subseteq Codes
      /\ w = [AC |-> w.AC, cmd |-> w.cmd, rsp |-> w.rsp]
  BY DEF WordSets
<1>2. v = [AC |-> [c \in Codes |-> field(c)], cmd |-> w.cmd, rsp |-> w.rsp]
  BY <1>1 DEF SetAC
<1>3. AC % 4 \in 0..3 /\ AC \div 4 \in 0..1
      /\ (AC <= 3 => AC % 4 = AC /\ AC \div 4 = 0)
  BY DEF AccessConditions
<1>4. ASSUME NEW x \in 0..3, NEW bit \in 0..1
      PROVE  /\ OrLowBit(x, bit) \in 0..3
             /\ bit = 0 => OrLowBit(x, bit) = x
             /\ x = FREE => OrLowBit(x, bit) = x
  <2>1. x = 0 \/ x = 1 \/ x = 2 \/ x = 3
    OBVIOUS
  <2> QED
    BY <2>1 DEF OrLowBit, FREE
<1>5. ASSUME NEW c \in Codes
      PROVE  /\ field(c) \in 0..3
             /\ v.AC[c] = field(c)
  BY <1>1, <1>2, <1>3, <1>4
<1>6. v.AC = [c \in Codes |-> field(c)] /\ v.cmd = w.cmd /\ v.rsp = w.rsp
  BY <1>2
<1>7. v.AC \in [Codes -> 0..3]
  BY <1>5, <1>6
<1>8. v \in WordSets
  BY <1>1, <1>2, <1>6, <1>7 DEF WordSets
<1>9. ASSUME NEW c \in Codes \ {code}
      PROVE  /\ c # code + 1 \/ AC <= 3 => v.AC[c] = w.AC[c]
             /\ w.AC[c] = FREE => v.AC[c] = FREE
  BY <1>1, <1>3, <1>4, <1>5
<1>10. AC <= 3 => v.AC[code] = AC
  BY <1>3, <1>5
<1> QED
  BY <1>6, <1>8, <1>9, <1>10

\* Storing a record: also its flags, which can only be set.
LEMMA SetRecordFields ==
    ASSUME NEW w \in WordSets, NEW code \in Codes, NEW r \in Records
    PROVE  /\ SetRecord(w, code, r) \in WordSets
           /\ r.AC <= 3 => SetRecord(w, code, r).AC[code] = r.AC
           /\ code \in SetRecord(w, code, r).cmd <=> code \in w.cmd \/ r.cmd = 1
           /\ code \in SetRecord(w, code, r).rsp <=> code \in w.rsp \/ r.rsp = 1
           /\ \A c \in Codes \ {code} :
                 /\ c \in SetRecord(w, code, r).cmd <=> c \in w.cmd
                 /\ c \in SetRecord(w, code, r).rsp <=> c \in w.rsp
                 /\ c # code + 1 \/ r.AC <= 3
                    => SetRecord(w, code, r).AC[c] = w.AC[c]
                 /\ w.AC[c] = FREE => SetRecord(w, code, r).AC[c] = FREE
<1> DEFINE v == SetAC(w, code, r.AC)
           u == SetRecord(w, code, r)
<1>1. r.AC \in AccessConditions
  BY DEF Records
<1>2. v \in WordSets /\ v.cmd = w.cmd /\ v.rsp = w.rsp
  BY <1>1, SetACFields
<1>3. u = [AC |-> v.AC, cmd |-> SetFlag(w.cmd, code, r.cmd),
           rsp |-> SetFlag(w.rsp, code, r.rsp)]
  BY <1>2 DEF SetRecord, WordSets
<1>4. u.AC = v.AC /\ u.cmd = SetFlag(w.cmd, code, r.cmd)
      /\ u.rsp = SetFlag(w.rsp, code, r.rsp)
  BY <1>3
<1>5. w.cmd \subseteq Codes /\ w.rsp \subseteq Codes /\ v.AC \in [Codes -> 0..3]
  BY <1>2 DEF WordSets
<1>6. u.cmd \subseteq Codes /\ u.rsp \subseteq Codes
  BY <1>4, <1>5 DEF SetFlag
<1>7. u \in WordSets
  BY <1>3, <1>4, <1>5, <1>6 DEF WordSets
<1>8. /\ code \in u.cmd <=> code \in w.cmd \/ r.cmd = 1
      /\ code \in u.rsp <=> code \in w.rsp \/ r.rsp = 1
      /\ \A c \in Codes \ {code} : (c \in u.cmd <=> c \in w.cmd)
                                   /\ (c \in u.rsp <=> c \in w.rsp)
  BY <1>4 DEF SetFlag
<1>9. /\ r.AC <= 3 => v.AC[code] = r.AC
      /\ \A c \in Codes \ {code} :
            /\ c # code + 1 \/ r.AC <= 3 => v.AC[c] = w.AC[c]
            /\ w.AC[c] = FREE => v.AC[c] = FREE
  BY <1>1, SetACFields
<1> QED
  BY <1>4, <1>7, <1>8, <1>9

\* The field of a record that Store writes is the one of its command, but for
\* the extended command 0, whose field is the unused one of the prefix.
LEMMA StoreFields ==
    ASSUME NEW p \in [Families -> WordSets], NEW r \in Records,
           NEW family \in Families, NEW code \in Codes,
           ~(family = "plain" /\ code = Prefix)
    PROVE  LET q == Store(p, r)
               own == FamilyOf(r) = family /\ CodeOf(r) = code
           IN /\ q \in [Families -> WordSets]
              /\ ~own =>
                   /\ code \in q[family].cmd <=> code \in p[family].cmd
                   /\ code \in q[family].rsp <=> code \in p[family].rsp
                   /\ p[family].AC[code] = FREE => q[family].AC[code] = FREE
                   /\ ~(FamilyOf(r) = family /\ CodeOf(r) + 1 = code /\ r.AC > 3)
                      => q[family].AC[code] = p[family].AC[code]
              /\ own /\ ~(r.header = Prefix /\ r.extended_header = 0) /\ r.AC <= 3 =>
                   /\ q[family].AC[code] = r.AC
                   /\ code \in q[family].cmd <=> code \in p[family].cmd \/ r.cmd = 1
                   /\ code \in q[family].rsp <=> code \in p[family].rsp \/ r.rsp = 1
<1> DEFINE target == IF r.extended_header = 0 THEN "plain" ELSE "ext"
           at == IF r.extended_header = 0 THEN r.header ELSE r.extended_header
           q == Store(p, r)
<1>1. /\ r.header \in Codes /\ r.extended_header \in Codes
      /\ r.header = Prefix \/ r.extended_header = 0
      /\ r.AC \in 0..5
  BY DEF Records, AccessConditions
<1>2. target \in Families /\ at \in Codes /\ Prefix \in Nat
  BY <1>1, CodeAssumption DEF Families, Codes, Prefix
<1>3. q = [p EXCEPT ![target] = SetRecord(p[target], at, r)]
  BY DEF Store
<1>4. p[target] \in WordSets
  BY <1>2
<1>5. SetRecord(p[target], at, r) \in WordSets
  BY <1>2, <1>4, SetRecordFields
<1>6. q \in [Families -> WordSets]
  BY <1>3, <1>5
<1>7. CASE family # target
  <2>1. q[family] = p[family]
    BY <1>3, <1>7
  <2>2. ~(FamilyOf(r) = family /\ CodeOf(r) = code)
        \/ (r.header = Prefix /\ r.extended_header = 0)
    BY <1>1, <1>7 DEF FamilyOf, CodeOf, Families
  <2> QED
    BY <1>6, <2>1, <2>2
<1>8. CASE family = target
  <2>1. q[family] = SetRecord(p[target], at, r)
    BY <1>2, <1>3, <1>8
  <2>2. CASE r.header = Prefix /\ r.extended_header = 0
    <3>1. family = "plain" /\ at = Prefix /\ code # at /\ code # at + 1
      BY <1>2, <1>8, <2>2 DEF Codes, Prefix
    <3> QED
      BY <1>2, <1>4, <1>6, <1>8, <2>1, <2>2, <3>1, SetRecordFields
  <2>3. CASE ~(r.header = Prefix /\ r.extended_header = 0)
    <3>1. FamilyOf(r) = family /\ CodeOf(r) = at
      BY <1>1, <1>8, <2>3 DEF FamilyOf, CodeOf
    <3>2. CASE code = at
      BY <1>2, <1>4, <1>6, <1>8, <2>1, <3>1, <3>2, SetRecordFields
    <3>3. CASE code # at
      <4>1. code \in Codes \ {at}
        BY <3>3
      <4>2. /\ code \in q[family].cmd <=> code \in p[family].cmd
            /\ code \in q[family].rsp <=> code \in p[family].rsp
            /\ p[family].AC[code] = FREE => q[family].AC[code] = FREE
            /\ code # at + 1 \/ r.AC <= 3 => q[family].AC[code] = p[family].AC[code]
        BY <1>2, <1>4, <1>8, <2>1, <4>1, SetRecordFields
      <4> QED
        BY <1>1, <1>6, <3>1, <3>3, <4>2
    <3> QED
      BY <3>2, <3>3
  <2> QED
    BY <2>2, <2>3
<1> QED
  BY <1>7, <1>8

-----------------------------------------------------------------------------
(***************************************************************************)
(* Type correctness                                                        *)
(***************************************************************************)
TypeInv == table \in Tables /\ TypeOK

\* The records of a table the secure element may report.
LEMMA TableRecords ==
    ASSUME table \in Tables
    PROVE  /\ Len(table) \in Nat
           /\ \A i \in 1..Len(table) : table[i] \in Records
           /\ DOMAIN table = 1..Len(table)
<1>1. table \in Seq(Records)
  BY TableAssumption
<1> QED
  BY <1>1

\* A transfer is recorded with one of the three routes.
LEMMA RouteType ==
    ASSUME NEW p, NEW family, NEW code
    PROVE  Route(p, family, code) \in Routes \ {"none"}
BY DEF Route, Routes

LEMMA SwitchedType ==
    ASSUME TypeOK, NEW code \in ZoneCodes, NEW protection
    PROVE  Switched(code, protection) \in [Families -> WordSets]
<1>1. code \in Codes /\ HOST \in AccessConditions /\ "plain" \in Families
  BY CodeAssumption DEF Codes, HOST, AccessConditions, Families
<1>2. perso_info["plain"] \in WordSets
  BY <1>1 DEF TypeOK
<1>3. SetAC(perso_info["plain"], code, HOST) \in WordSets
  BY <1>1, <1>2, SetACFields
<1> QED
  BY <1>1, <1>3 DEF Switched, TypeOK

\* The words the handler starts with and those an update starts with.
LEMMA WordsType ==
    ASSUME NEW AC \in 0..3
    PROVE  [family \in Families |-> Words(AC)] \in [Families -> WordSets]
BY DEF Words, WordSets

LEMMA TypeStep ==
    ASSUME TypeInv, [Next]_vars
    PROVE  TypeInv'
<1> USE DEF TypeInv
<1>1. /\ Len(table) \in Nat
      /\ \A i \in 1..Len(table) : table[i] \in Records
  BY TableRecords
<1>2. CASE UpdateStart
  <2>1. perso_info' \in [Families -> WordSets]
    BY <1>2, WordsType DEF UpdateStart, Cleared, FREE
  <2>2. last' \in Commands
    BY <1>2, CodeAssumption
    DEF UpdateStart, NoCommand, Sent, Commands, Families, Codes, Protections, Routes
  <2> QED
    BY <1>2, <2>1, <2>2 DEF UpdateStart, TypeOK
<1>3. CASE QueryFails
  BY <1>3 DEF QueryFails, TypeOK
<1>4. CASE QueryTable
  BY <1>1, <1>4 DEF QueryTable, TypeOK
<1>5. CASE StoreRecord
  <2>1. record \in 1..Len(table) /\ table[record] \in Records
    BY <1>1, <1>5 DEF StoreRecord, TypeOK
  <2>2. 0 \in Codes /\ "ext" \in Families /\ "ext" # "plain"
    BY CodeAssumption DEF Codes, Families
  <2>3. perso_info' \in [Families -> WordSets]
    BY <1>5, <2>1, <2>2, StoreFields DEF StoreRecord, TypeOK
  <2> QED
    BY <1>1, <1>5, <2>1, <2>3 DEF StoreRecord, TypeOK
<1>6. CASE UpdateDone
  BY <1>6 DEF UpdateDone, TypeOK
<1>7. ASSUME NEW family \in Families, NEW code \in Codes, Transfer(family, code)
      PROVE  TypeInv'
  <2>1. last' \in Commands
    BY <1>7, RouteType DEF Transfer, Sent, Commands, Protections
  <2> QED
    BY <1>7, <2>1 DEF Transfer, TypeOK
<1>8. ASSUME NEW code \in ZoneCodes, NEW protection \in Protections,
             NEW length \in Lengths, Access(code, protection, length)
      PROVE  TypeInv'
  <2>1. code \in Codes /\ "plain" \in Families
    BY CodeAssumption DEF Codes, Families
  <2>2. Switched(code, protection) \in [Families -> WordSets]
    BY SwitchedType
  <2>3. last' \in Commands
    BY <1>8, <2>1, RouteType DEF Access, Sent, Commands, Routes
  <2>4. perso_info' \in [Families -> WordSets] /\ leaked' \subseteq ZoneCodes
    BY <1>8, <2>2 DEF Access, AfterAccess, TypeOK
  <2> QED
    BY <1>8, <2>3, <2>4 DEF Access, TypeOK
<1>9. ASSUME NEW code \in ZoneCodes, NEW protection \in Protections,
             AccessRefused(code, protection)
      PROVE  TypeInv'
  <2>1. code \in Codes /\ "plain" \in Families
    BY CodeAssumption DEF Codes, Families
  <2>2. last' \in Commands
    BY <1>9, <2>1 DEF AccessRefused, Sent, Commands, Routes
  <2> QED
    BY <1>9, <2>2 DEF AccessRefused, TypeOK
<1>10. CASE UNCHANGED vars
  BY <1>10 DEF vars, TypeOK
<1> QED
  BY <1>2, <1>3, <1>4, <1>5, <1>6, <1>7, <1>8, <1>9, <1>10 DEF Next

LEMMA TypeInit == Init => TypeInv
<1> SUFFICES ASSUME Init PROVE TypeInv
  OBVIOUS
<1>1. Len(table) \in Nat /\ table \in Tables
  BY TableRecords DEF Init
<1>2. perso_info \in [Families -> WordSets]
  BY WordsType DEF Init, NEVER
<1>3. last \in Commands
  BY CodeAssumption
  DEF Init, NoCommand, Sent, Commands, Families, Codes, Protections, Routes
<1>4. record \in 1..(Len(table) + 1)
  BY <1>1 DEF Init
<1>5. pc \in {"idle", "query", "store"} /\ loaded \in BOOLEAN /\ leaked \subseteq ZoneCodes
  BY DEF Init
<1> QED
  BY <1>1, <1>2, <1>3, <1>4, <1>5 DEF TypeInv, TypeOK

\* perso_info keeps its type: whatever a table holds, no access condition is
\* wider than its two bits (stsafea_perso_info_set_cmd_AC).
THEOREM TypeCorrect == Spec => []TypeOK
<1>1. TypeInv /\ [Next]_vars => TypeInv'
  BY TypeStep
<1>2. TypeInv => TypeOK
  BY DEF TypeInv
<1> QED
  BY <1>1, <1>2, TypeInit, PTL DEF Spec

-----------------------------------------------------------------------------
(***************************************************************************)
(* The fields follow the table                                             *)
(***************************************************************************)

\* Nothing is stored yet.
LEMMA ClearedIsStored ==
    ASSUME perso_info = Cleared
    PROVE  Stored(1)
<1> SUFFICES ASSUME NEW family \in Families, NEW code \in Codes
             PROVE  /\ perso_info[family].AC[code] = FREE
                    /\ code \notin perso_info[family].cmd \cup perso_info[family].rsp
  BY DEF Stored
<1> QED
  BY DEF Cleared, Words

\* The loop of stsafea_perso_info_update: a record writes the field of its
\* command, which no record before did, and spoils at most the next one.
LEMMA StoreStep ==
    ASSUME TypeInv, Stored(record), leaked = {}, StoreRecord
    PROVE  Stored(record)'
<1> DEFINE r == table[record]
<1>1. /\ Len(table) \in Nat /\ record \in 1..Len(table) /\ r \in Records
      /\ DOMAIN table = 1..Len(table)
      /\ \A i \in 1..Len(table) : table[i] \in Records
  BY TableRecords DEF TypeInv, TypeOK, StoreRecord
<1>2. /\ perso_info' = Store(perso_info, r) /\ record' = record + 1
      /\ table' = table /\ leaked' = {}
      /\ perso_info \in [Families -> WordSets]
  BY DEF StoreRecord, TypeInv, TypeOK
<1>3. SUFFICES
        ASSUME NEW family \in Families, NEW code \in Codes,
               ~(family = "plain" /\ code = Prefix)
        PROVE  /\ (\A i \in 1..record : ~IsAbout(i, family, code)) =>
                     /\ perso_info'[family].AC[code] = FREE
                     /\ code \notin perso_info'[family].cmd
                     /\ code \notin perso_info'[family].rsp
               /\ \A i \in 1..record : IsAbout(i, family, code) /\ Holds(i, record + 1) =>
                     /\ perso_info'[family].AC[code] = table[i].AC
                     /\ code \in perso_info'[family].cmd <=> table[i].cmd = 1
                     /\ code \in perso_info'[family].rsp <=> table[i].rsp = 1
  BY <1>1, <1>2 DEF Stored, Holds, IsAbout
<1> DEFINE w == perso_info[family]
           v == perso_info'[family]
<1>4. /\ (\A i \in 1..(record - 1) : ~IsAbout(i, family, code)) =>
            w.AC[code] = FREE /\ code \notin w.cmd /\ code \notin w.rsp
      /\ \A i \in 1..(record - 1) : IsAbout(i, family, code) /\ Holds(i, record) =>
            /\ w.AC[code] = table[i].AC
            /\ code \in w.cmd <=> table[i].cmd = 1
            /\ code \in w.rsp <=> table[i].rsp = 1
  BY <1>3 DEF Stored
<1>5. \A i \in 1..(record - 1) : ~IsAbout(i, family, code) \/ ~IsAbout(record, family, code)
  BY <1>1, DistinctAssumption DEF TypeInv, IsAbout
<1>6. CASE IsAbout(record, family, code)
  <2>1. code \notin w.cmd /\ code \notin w.rsp
    BY <1>4, <1>5, <1>6
  <2>2. ASSUME NEW i \in 1..record, IsAbout(i, family, code), Holds(i, record + 1)
        PROVE  /\ v.AC[code] = table[i].AC
               /\ code \in v.cmd <=> table[i].cmd = 1
               /\ code \in v.rsp <=> table[i].rsp = 1
    <3>1. i = record
      BY <1>1, <1>5, <1>6, <2>2
    <3>2. ~(r.header = Prefix /\ r.extended_header = 0) /\ r.AC <= 3
      BY <2>2, <3>1 DEF Holds
    <3>3. FamilyOf(r) = family /\ CodeOf(r) = code
      BY <1>6 DEF IsAbout
    <3>4. /\ v.AC[code] = r.AC
          /\ code \in v.cmd <=> code \in w.cmd \/ r.cmd = 1
          /\ code \in v.rsp <=> code \in w.rsp \/ r.rsp = 1
      BY <1>1, <1>2, <1>3, <3>2, <3>3, StoreFields
    <3> QED
      BY <2>1, <3>1, <3>4
  <2>3. record \in 1..record
    BY <1>1
  <2> QED
    BY <1>6, <2>2, <2>3
<1>7. CASE ~IsAbout(record, family, code)
  <2>1. ~(FamilyOf(r) = family /\ CodeOf(r) = code)
    BY <1>7 DEF IsAbout
  <2>2. /\ code \in v.cmd <=> code \in w.cmd
        /\ code \in v.rsp <=> code \in w.rsp
        /\ w.AC[code] = FREE => v.AC[code] = FREE
        /\ ~(FamilyOf(r) = family /\ CodeOf(r) + 1 = code /\ r.AC > 3)
           => v.AC[code] = w.AC[code]
    BY <1>1, <1>2, <1>3, <2>1, StoreFields
  <2>3. ASSUME \A i \in 1..record : ~IsAbout(i, family, code)
        PROVE  v.AC[code] = FREE /\ code \notin v.cmd /\ code \notin v.rsp
    BY <1>1, <1>4, <2>2, <2>3
  <2>4. ASSUME NEW i \in 1..record, IsAbout(i, family, code), Holds(i, record + 1)
        PROVE  /\ v.AC[code] = table[i].AC
               /\ code \in v.cmd <=> table[i].cmd = 1
               /\ code \in v.rsp <=> table[i].rsp = 1
    <3>1. i \in 1..(record - 1)
      BY <1>1, <1>7, <2>4
    <3>2. record \in (i + 1)..(record + 1 - 1) /\ (i + 1)..(record - 1) \subseteq (i + 1)..(record + 1 - 1)
      BY <1>1, <3>1
    <3>3. Holds(i, record)
      BY <2>4, <3>2 DEF Holds
    <3>4. FamilyOf(r) = family /\ CodeOf(r) + 1 = code => r.AC <= 3
      BY <2>4, <3>2 DEF Holds, IsAbout
    <3>5. r.AC \in 0..5
      BY <1>1 DEF Records, AccessConditions
    <3>6. v.AC[code] = w.AC[code]
      BY <2>2, <3>4, <3>5
    <3> QED
      BY <1>4, <2>2, <2>4, <3>1, <3>3, <3>6
  <2> QED
    BY <2>3, <2>4
<1> QED
  BY <1>6, <1>7

\* A zone access that was too long raises the field of its own command to HOST
\* and records the command in leaked; no other access changes a field.
LEMMA LeakStep ==
    ASSUME TypeInv, NEW n \in Nat, Stored(n),
           NEW code \in ZoneCodes, NEW protection,
           perso_info' = Switched(code, protection),
           leaked' = leaked \cup {code}, table' = table
    PROVE  Stored(n)'
<1>1. code \in Codes /\ "plain" \in Families /\ HOST \in AccessConditions /\ HOST <= 3
  BY CodeAssumption DEF Codes, Families, HOST, AccessConditions
<1>2. perso_info \in [Families -> WordSets] /\ perso_info["plain"] \in WordSets
  BY <1>1 DEF TypeInv, TypeOK
<1>3. ASSUME NEW family \in Families, NEW c \in Codes
      PROVE  /\ c \in perso_info'[family].cmd <=> c \in perso_info[family].cmd
             /\ c \in perso_info'[family].rsp <=> c \in perso_info[family].rsp
             /\ \/ perso_info'[family].AC[c] = perso_info[family].AC[c]
                \/ family = "plain" /\ c = code /\ perso_info'[family].AC[c] = HOST
  <2>1. CASE protection = "HOST_C_MAC_R_MAC" /\ family = "plain"
    <3>1. perso_info'[family] = SetAC(perso_info["plain"], code, HOST)
      BY <1>2, <2>1 DEF Switched
    <3>2. c = code \/ c \in Codes \ {code}
      OBVIOUS
    <3> QED
      BY <1>1, <1>2, <2>1, <3>1, <3>2, SetACFields
  <2>2. CASE ~(protection = "HOST_C_MAC_R_MAC" /\ family = "plain")
    <3>1. perso_info'[family] = perso_info[family]
      BY <1>2, <2>2 DEF Switched
    <3> QED
      BY <3>1
  <2> QED
    BY <2>1, <2>2
<1>4. SUFFICES
        ASSUME NEW family \in Families, NEW c \in Codes,
               ~(family = "plain" /\ c = Prefix)
        PROVE  LET w == perso_info'[family]
                   Raise == IF family = "plain" /\ c \in leaked' THEN {HOST} ELSE {}
               IN /\ (\A i \in 1..(n - 1) : ~IsAbout(i, family, c)) =>
                        /\ w.AC[c] \in {FREE} \cup Raise
                        /\ c \notin w.cmd \cup w.rsp
                  /\ \A i \in 1..(n - 1) : IsAbout(i, family, c) /\ Holds(i, n) =>
                        /\ w.AC[c] \in {table[i].AC} \cup Raise
                        /\ c \in w.cmd <=> table[i].cmd = 1
                        /\ c \in w.rsp <=> table[i].rsp = 1
  BY DEF Stored, Holds, IsAbout
<1>5. LET w == perso_info[family]
          Raise == IF family = "plain" /\ c \in leaked THEN {HOST} ELSE {}
      IN /\ (\A i \in 1..(n - 1) : ~IsAbout(i, family, c)) =>
               /\ w.AC[c] \in {FREE} \cup Raise
               /\ c \notin w.cmd \cup w.rsp
         /\ \A i \in 1..(n - 1) : IsAbout(i, family, c) /\ Holds(i, n) =>
               /\ w.AC[c] \in {table[i].AC} \cup Raise
               /\ c \in w.cmd <=> table[i].cmd = 1
               /\ c \in w.rsp <=> table[i].rsp = 1
  BY <1>4 DEF Stored
<1> QED
  BY <1>3, <1>4, <1>5

LEMMA StoredUnchanged ==
    ASSUME NEW n, Stored(n), UNCHANGED <<table, perso_info, leaked>>
    PROVE  Stored(n)'
BY DEF Stored, Holds, IsAbout

LEMMA StoreInvStep ==
    ASSUME TypeInv, StoreInv, [Next]_vars
    PROVE  StoreInv'
<1>1. Len(table) \in Nat
  BY TableRecords DEF TypeInv
<1>2. CASE UpdateStart
  BY <1>2 DEF UpdateStart, StoreInv
<1>3. CASE QueryFails
  BY <1>3 DEF QueryFails, StoreInv
<1>4. CASE QueryTable
  <2>1. Stored(1)
    BY <1>4, ClearedIsStored DEF QueryTable, StoreInv
  <2>2. Stored(1)'
    BY <1>4, <2>1, StoredUnchanged DEF QueryTable
  <2>3. Stored(record)'
    BY <1>4, <2>2 DEF QueryTable, Stored, Holds, IsAbout
  <2> QED
    BY <1>4, <2>3 DEF QueryTable, StoreInv
<1>5. CASE StoreRecord
  <2>1. Stored(record) /\ leaked = {} /\ ~loaded
    BY <1>5 DEF StoreRecord, StoreInv
  <2>2. Stored(record)'
    BY <1>5, <2>1, StoreStep
  <2> QED
    BY <1>5, <2>1, <2>2 DEF StoreRecord, StoreInv
<1>6. CASE UpdateDone
  <2>1. record = Len(table) + 1
    BY <1>1, <1>6 DEF UpdateDone, TypeInv, TypeOK
  <2>2. Stored(record)
    BY <1>6 DEF UpdateDone, StoreInv
  <2>3. Stored(Len(table) + 1)'
    BY <1>6, <2>1, <2>2 DEF UpdateDone, Stored, Holds, IsAbout
  <2> QED
    BY <1>6, <2>3 DEF UpdateDone, StoreInv
<1>7. CASE UNCHANGED <<table, perso_info, pc, record, loaded, leaked>>
  BY <1>7 DEF StoreInv, Stored, Holds, IsAbout
<1>8. ASSUME NEW code \in ZoneCodes, NEW protection \in Protections,
             NEW length \in Lengths, Access(code, protection, length)
      PROVE  StoreInv'
  <2>1. pc = "idle" /\ pc' = "idle" /\ loaded' = loaded /\ table' = table
    BY <1>8 DEF Access
  <2>2. CASE length < MaxFrame
    BY <1>7, <1>8, <2>2, LengthAssumption DEF Access, AfterAccess
  <2>3. CASE length >= MaxFrame
    <3>1. /\ perso_info' = Switched(code, protection)
          /\ leaked' = leaked \cup {code}
      BY <1>8, <2>3 DEF Access
    <3>2. ASSUME loaded PROVE Stored(Len(table) + 1)'
      <4>1. Stored(Len(table) + 1) /\ Len(table) + 1 \in Nat
        BY <1>1, <3>2 DEF StoreInv
      <4>2. \A n \in Nat : Stored(n) => Stored(n)'
        BY <2>1, <3>1, LeakStep
      <4>3. PICK n \in Nat : n = Len(table) + 1
        BY <4>1
      <4>4. Stored(n)'
        BY <4>1, <4>2, <4>3
      <4>5. n = Len(table') + 1
        BY <2>1, <4>3
      <4> QED
        BY <4>4, <4>5
    <3> QED
      BY <2>1, <3>2 DEF StoreInv
  <2> QED
    BY <2>2, <2>3, LengthAssumption
<1>9. ASSUME NEW family, NEW code, Transfer(family, code)
      PROVE  StoreInv'
  BY <1>7, <1>9 DEF Transfer
<1>10. ASSUME NEW code, NEW protection, AccessRefused(code, protection)
       PROVE  StoreInv'
  BY <1>7, <1>10 DEF AccessRefused
<1>11. CASE UNCHANGED vars
  BY <1>7, <1>11 DEF vars
<1> QED
  BY <1>2, <1>3, <1>4, <1>5, <1>6, <1>8, <1>9, <1>10, <1>11 DEF Next

LEMMA StoreInvInit == Init => StoreInv
BY DEF Init, StoreInv

\* What the fields say of a command that has a record they can hold, and of one
\* that has none.
LEMMA StoredRoute ==
    ASSUME TypeInv, StoreInv, loaded, NEW family \in Families, NEW code \in Codes
    PROVE  LET route == Route(perso_info, family, code)
           IN /\ \A i \in Reported(family, code) : Representable(i) =>
                    route \in Raised(family, code, Demanded(table[i]))
              /\ Reported(family, code) = {} /\ ~(family = "plain" /\ code = Prefix) =>
                    route \in Raised(family, code, "raw")
<1> DEFINE w == perso_info[family]
           Raise == IF family = "plain" /\ code \in leaked THEN {HOST} ELSE {}
           n == Len(table) + 1
<1>1. /\ DOMAIN table = 1..(n - 1)
      /\ \A i \in DOMAIN table : table[i] \in Records
  BY TableRecords DEF TypeInv
<1>2. Stored(n)
  BY DEF StoreInv
<1>3. ASSUME NEW i \in Reported(family, code), Representable(i)
      PROVE  Route(perso_info, family, code)
                 \in Raised(family, code, Demanded(table[i]))
  <2>1. i \in 1..(n - 1) /\ IsAbout(i, family, code) /\ Holds(i, n)
    BY <1>1, <1>3 DEF Reported, Representable
  <2>2. ~(family = "plain" /\ code = Prefix)
    BY <2>1 DEF IsAbout, FamilyOf, CodeOf
  <2>3. /\ w.AC[code] \in {table[i].AC} \cup Raise
        /\ code \in w.cmd <=> table[i].cmd = 1
        /\ code \in w.rsp <=> table[i].rsp = 1
    BY <1>2, <2>1, <2>2 DEF Stored
  <2> QED
    BY <2>3 DEF Route, Raised, Demanded, FREE, HOST
<1>4. ASSUME Reported(family, code) = {}, ~(family = "plain" /\ code = Prefix)
      PROVE  Route(perso_info, family, code) \in Raised(family, code, "raw")
  <2>1. \A i \in 1..(n - 1) : ~IsAbout(i, family, code)
    BY <1>1, <1>4 DEF Reported
  <2>2. w.AC[code] \in {FREE} \cup Raise /\ code \notin w.cmd \cup w.rsp
    BY <1>2, <1>4, <2>1 DEF Stored
  <2> QED
    BY <2>2 DEF Route, Raised, FREE, HOST
<1> QED
  BY <1>3, <1>4

\* After a successful update every command goes the way its record demands,
\* for every table (stsafea_perso_info_update, stsafea_frame_transfer).
THEOREM RouteFollows == Spec => []RouteFollowsTable
<1>1. TypeInv /\ StoreInv /\ [Next]_vars => TypeInv' /\ StoreInv'
  BY TypeStep, StoreInvStep
<1>2. TypeInv /\ StoreInv => RouteFollowsTable
  BY StoredRoute DEF RouteFollowsTable
<1> QED
  BY <1>1, <1>2, TypeInit, StoreInvInit, PTL DEF Spec

-----------------------------------------------------------------------------
(***************************************************************************)
(* Zone accesses                                                           *)
(***************************************************************************)

\* No access is on record while an update runs.
Quiet == pc # "idle" => last.kind # "access"
AccessInv == Quiet /\ AccessIsProtected

\* An access that is sent: the switch only adds to what the fields demand.
LEMMA AccessStep ==
    ASSUME TypeInv, StoreInv,
           NEW code \in ZoneCodes, NEW protection \in Protections,
           NEW length \in Lengths, Access(code, protection, length)
    PROVE  AccessInv'
<1> DEFINE s == Switched(code, protection)
           route == Route(s, "plain", code)
<1>1. code \in Codes /\ "plain" \in Families /\ code # Prefix /\ HOST \in AccessConditions
  BY CodeAssumption DEF Codes, Prefix, Families, HOST, AccessConditions
<1>2. perso_info \in [Families -> WordSets] /\ perso_info["plain"] \in WordSets
  BY <1>1 DEF TypeInv, TypeOK
<1>3. CASE length >= MaxFrame
  <2>1. last'.kind # "access" /\ pc' = "idle"
    BY <1>3 DEF Access, Sent
  <2> QED
    BY <2>1 DEF AccessInv, Quiet, AccessIsProtected
<1>4. CASE length < MaxFrame
  <2>1. /\ last' = Sent("access", "plain", code, protection, route)
        /\ pc' = "idle" /\ loaded' = loaded /\ table' = table
    BY <1>4, LengthAssumption DEF Access
  <2>2. last'.code = code /\ last'.protection = protection /\ last'.route = route
    BY <2>1 DEF Sent
  <2>3. /\ protection = "HOST_C_MAC_R_MAC" => s["plain"].AC[code] = HOST
        /\ s["plain"].AC[code] \in {perso_info["plain"].AC[code], HOST}
        /\ s["plain"].cmd = perso_info["plain"].cmd
        /\ s["plain"].rsp = perso_info["plain"].rsp
    <3>1. CASE protection = "HOST_C_MAC_R_MAC"
      <4>1. s["plain"] = SetAC(perso_info["plain"], code, HOST)
        BY <1>1, <1>2, <3>1 DEF Switched
      <4>2. HOST <= 3
        BY DEF HOST
      <4> QED
        BY <1>1, <1>2, <4>1, <4>2, SetACFields
    <3>2. CASE protection # "HOST_C_MAC_R_MAC"
      BY <3>2 DEF Switched
    <3> QED
      BY <3>1, <3>2
  <2>4. ASSUME protection = "HOST_C_MAC_R_MAC" PROVE Strength(route) >= 2
    BY <2>3, <2>4 DEF Route, Strength, HOST, FREE
  <2>5. ASSUME loaded, NEW i \in Reported("plain", code), Representable(i)
        PROVE  Strength(route) >= Strength(Demanded(table[i]))
    <3>1. Route(perso_info, "plain", code) \in Raised("plain", code, Demanded(table[i]))
      BY <1>1, <2>5, StoredRoute
    <3>2. Strength(route) >= Strength(Route(perso_info, "plain", code))
      BY <2>3 DEF Route, Strength, HOST, FREE
    <3>3. Strength(Route(perso_info, "plain", code)) >= Strength(Demanded(table[i]))
      BY <3>1 DEF Raised, Route, Demanded, Strength
    <3>4. /\ Strength(route) \in Nat /\ Strength(Route(perso_info, "plain", code)) \in Nat
          /\ Strength(Demanded(table[i])) \in Nat
      BY DEF Route, Demanded, Strength
    <3> QED
      BY <3>2, <3>3, <3>4
  <2>6. AccessIsProtected'
    BY <2>1, <2>2, <2>4, <2>5
    DEF AccessIsProtected, Reported, IsAbout, Representable, Holds
  <2> QED
    BY <2>1, <2>6 DEF AccessInv, Quiet
<1> QED
  BY <1>3, <1>4, LengthAssumption

LEMMA AccessInvStep ==
    ASSUME TypeInv, StoreInv, AccessInv, [Next]_vars
    PROVE  AccessInv'
<1>1. CASE UpdateStart
  BY <1>1 DEF UpdateStart, NoCommand, Sent, AccessInv, Quiet, AccessIsProtected
<1>2. CASE QueryFails \/ QueryTable \/ StoreRecord \/ UpdateDone
  <2>1. last' = last /\ last.kind # "access"
    BY <1>2 DEF QueryFails, QueryTable, StoreRecord, UpdateDone, AccessInv, Quiet
  <2> QED
    BY <2>1 DEF AccessInv, Quiet, AccessIsProtected
<1>3. ASSUME NEW family, NEW code, Transfer(family, code)
      PROVE  AccessInv'
  <2>1. last'.kind # "access"
    BY <1>3 DEF Transfer, Sent
  <2> QED
    BY <2>1 DEF AccessInv, Quiet, AccessIsProtected
<1>4. ASSUME NEW code, NEW protection, AccessRefused(code, protection)
      PROVE  AccessInv'
  <2>1. last'.kind # "access"
    BY <1>4 DEF AccessRefused, Sent
  <2> QED
    BY <2>1 DEF AccessInv, Quiet, AccessIsProtected
<1>5. CASE UNCHANGED vars
  BY <1>5 DEF vars, AccessInv, Quiet, AccessIsProtected, Reported, IsAbout,
              Representable, Holds
<1> QED
  BY <1>1, <1>2, <1>3, <1>4, <1>5, AccessStep DEF Next

LEMMA AccessInvInit == Init => AccessInv
BY DEF Init, NoCommand, Sent, AccessInv, Quiet, AccessIsProtected

\* The protection a caller asks for one zone access is never dropped, and never
\* replaces a stronger one (stsafea_switch_data_partition_access_protection).
THEOREM AccessProtected == Spec => []AccessIsProtected
<1>1. TypeInv /\ StoreInv /\ AccessInv /\ [Next]_vars
      => TypeInv' /\ StoreInv' /\ AccessInv'
  BY TypeStep, StoreInvStep, AccessInvStep
<1>2. AccessInv => AccessIsProtected
  BY DEF AccessInv
<1> QED
  BY <1>1, <1>2, TypeInit, StoreInvInit, AccessInvInit, PTL DEF Spec
=============================================================================
