------------------------------ MODULE PersoInfo ------------------------------
(***************************************************************************)
(* The personalisation information of the handler (perso_info): the copy   *)
(* of the secure element's command authorisation table that decides, for   *)
(* every command, whether it is sent as it is or through the host session. *)
(* stsafea_commands.c fills it, stsafea_frame_transfer.c reads it, and the *)
(* zone accesses of stsafea_data_partition.c change it for the time of one *)
(* command.                                                                *)
(*                                                                         *)
(* The copy is packed: two bits of access condition and one bit per        *)
(* encryption flag for each command code, in one word for the commands and *)
(* one for the extended commands.  A field is modelled with its width: an  *)
(* access condition above 3 runs over into the field of the next command.  *)
(***************************************************************************)
EXTENDS Naturals, Sequences

CONSTANTS MaxCode,     \* the largest command code, EXTENDED_COMMAND_PREFIX
          Tables,      \* authorisation tables the secure element may report
          ZoneCodes,   \* DECREMENT, READ and UPDATE
          Lengths,     \* data lengths of zone accesses
          MaxFrame     \* stsafea_maximum_frame_length of the product

Codes == 0..MaxCode
Prefix == MaxCode

\* stse_cmd_access_conditions_t
NEVER == 0
FREE == 1
ADMIN == 2
HOST == 3
AccessConditions == 0..5  \* 4 is ADMIN_OR_PWD, 5 is ADMIN_OR_HOST

\* A record as stsafea_get_command_AC_table parses it: no second header byte
\* but after the prefix.
Records == {r \in [header : Codes, extended_header : Codes,
                   AC : AccessConditions, cmd : 0..1, rsp : 0..1] :
               r.header = Prefix \/ r.extended_header = 0}

\* The command a record is about.
FamilyOf(r) == IF r.header = Prefix THEN "ext" ELSE "plain"
CodeOf(r) == IF r.header = Prefix THEN r.extended_header ELSE r.header

ASSUME CodeAssumption == MaxCode \in Nat \ {0} /\ ZoneCodes \subseteq 0..(MaxCode - 1)
ASSUME TableAssumption == Tables \subseteq Seq(Records)
\* A table has one record per command.
ASSUME DistinctAssumption ==
    \A t \in Tables : \A i, j \in DOMAIN t :
        FamilyOf(t[i]) = FamilyOf(t[j]) /\ CodeOf(t[i]) = CodeOf(t[j]) => i = j
ASSUME LengthAssumption == Lengths \subseteq Nat /\ MaxFrame \in Nat

Protections == {"NO_PROT", "HOST_C_MAC_R_MAC", "HOST_C_WRAP_R_WRAP"}
Families == {"plain", "ext"}
Routes == {"none", "raw", "authenticated", "encrypted"}

VARIABLES table,       \* external: the table of the secure element
          perso_info,
          pc, record,  \* the update under way, and the index of its loop
          loaded,      \* history: the last update succeeded
          leaked,      \* history: commands whose access was too long since then
          last         \* history: the last command since the update, and its route

vars == <<table, perso_info, pc, record, loaded, leaked, last>>

Sent(kind, family, code, protection, route) ==
    [kind |-> kind, family |-> family, code |-> code, protection |-> protection,
     route |-> route]
NoCommand == Sent("none", "plain", 0, "NO_PROT", "none")

-----------------------------------------------------------------------------
(* The packed fields                                                       *)

\* The words: access conditions as a function, encryption flags as a set.
Words(AC) == [AC |-> [c \in Codes |-> AC], cmd |-> {}, rsp |-> {}]

OrLowBit(x, bit) == IF bit = 1 /\ x % 2 = 0 THEN x + 1 ELSE x

\* The two bits of the code are cleared, then the value is or-ed in.
SetACNotTruncated(w, code, AC) == [w EXCEPT !.AC[code] = AC]
SetAC(w, code, AC) ==
    [w EXCEPT !.AC = [c \in Codes |->
        IF c = code THEN AC % 4
        ELSE IF c = code + 1 THEN OrLowBit(w.AC[c], AC \div 4)
        ELSE w.AC[c]]]

\* Clearing a flag has no effect: the mask is the complement of 0 << code.
SetFlag(flags, code, flag) == IF flag = 1 THEN flags \cup {code} ELSE flags

SetRecord(w, code, r) ==
    [AC |-> SetAC(w, code, r.AC).AC,
     cmd |-> SetFlag(w.cmd, code, r.cmd),
     rsp |-> SetFlag(w.rsp, code, r.rsp)]

-----------------------------------------------------------------------------
(* stsafea_perso_info_update                                               *)

Cleared == [family \in Families |-> Words(FREE)]

\* An extended header of 0 is taken for "not extended".
Store(p, r) ==
    IF r.extended_header = 0
    THEN [p EXCEPT !["plain"] = SetRecord(@, r.header, r)]
    ELSE [p EXCEPT !["ext"] = SetRecord(@, r.extended_header, r)]

\* The copy is cleared first: every command counts as free from here on.
UpdateStart ==
    /\ pc = "idle"
    /\ perso_info' = Cleared
    /\ pc' = "query"
    /\ loaded' = FALSE
    /\ leaked' = {}
    /\ last' = NoCommand
    /\ UNCHANGED <<table, record>>

\* The count, then the table, are queried with unprotected commands.
QueryFails ==
    /\ pc = "query"
    /\ pc' = "idle"
    /\ UNCHANGED <<table, perso_info, record, loaded, leaked, last>>

QueryTable ==
    /\ pc = "query"
    /\ pc' = "store"
    /\ record' = 1
    /\ UNCHANGED <<table, perso_info, loaded, leaked, last>>

StoreRecord ==
    /\ pc = "store"
    /\ record <= Len(table)
    /\ perso_info' = Store(perso_info, table[record])
    /\ record' = record + 1
    /\ UNCHANGED <<pc, table, loaded, leaked, last>>

UpdateDone ==
    /\ pc = "store"
    /\ record > Len(table)
    /\ pc' = "idle"
    /\ loaded' = TRUE
    /\ UNCHANGED <<table, perso_info, record, leaked, last>>

-----------------------------------------------------------------------------
(* The dispatch of stsafea_frame_transfer                                  *)

Route(p, family, code) ==
    LET w == p[family]
    IN IF code \in w.cmd \cup w.rsp THEN "encrypted"
       ELSE IF w.AC[code] # FREE THEN "authenticated" ELSE "raw"

\* The command of any other service.
Transfer(family, code) ==
    /\ pc = "idle"
    /\ family = "plain" => code # Prefix
    /\ last' = Sent("transfer", family, code, "NO_PROT",
                    Route(perso_info, family, code))
    /\ UNCHANGED <<table, perso_info, pc, record, loaded, leaked>>

-----------------------------------------------------------------------------
(* Zone accesses (stsafea_decrement_counter_zone, _read_counter_zone,      *)
(* _read_data_zone, _update_data_zone)                                     *)

SwitchedToRequested(code, protection) ==
    [perso_info EXCEPT !["plain"] =
        SetAC(@, code, IF protection = "HOST_C_MAC_R_MAC" THEN HOST ELSE FREE)]
Switched(code, protection) ==
    IF protection = "HOST_C_MAC_R_MAC"
    THEN [perso_info EXCEPT !["plain"] = SetAC(@, code, HOST)]
    ELSE perso_info

\* The protection is switched for the command and switched back after it,
\* but not when the frame turns out to be too long.
AfterAccessSwitched(code, protection) == Switched(code, protection)
AfterAccess(code, protection) == perso_info

Access(code, protection, length) ==
    /\ pc = "idle"
    /\ protection \in {"NO_PROT", "HOST_C_MAC_R_MAC"}
    /\ IF length >= MaxFrame
       THEN /\ perso_info' = Switched(code, protection)
            /\ leaked' = leaked \cup {code}
            /\ last' = Sent("too_long", "plain", code, protection, "none")
       ELSE /\ perso_info' = AfterAccess(code, protection)
            /\ last' = Sent("access", "plain", code, protection,
                            Route(Switched(code, protection), "plain", code))
            /\ UNCHANGED leaked
    /\ UNCHANGED <<table, pc, record, loaded>>

\* Wrapping cannot be asked for one access.
AccessRefused(code, protection) ==
    /\ pc = "idle"
    /\ protection \notin {"NO_PROT", "HOST_C_MAC_R_MAC"}
    /\ last' = Sent("refused", "plain", code, protection, "none")
    /\ UNCHANGED <<table, perso_info, pc, record, loaded, leaked>>

-----------------------------------------------------------------------------
\* stse_set_default_handler_value zeroes the structure.
Init ==
    /\ table \in Tables
    /\ perso_info = [family \in Families |-> Words(NEVER)]
    /\ pc = "idle" /\ record = 1
    /\ loaded = FALSE
    /\ leaked = {}
    /\ last = NoCommand

Next == \/ UpdateStart \/ QueryFails \/ QueryTable \/ StoreRecord \/ UpdateDone
        \/ \E family \in Families, code \in Codes : Transfer(family, code)
        \/ \E code \in ZoneCodes, protection \in Protections, length \in Lengths :
              \/ Access(code, protection, length)
              \/ AccessRefused(code, protection)

Spec == Init /\ [][Next]_vars

-----------------------------------------------------------------------------
WordSets == [AC : [Codes -> 0..3], cmd : SUBSET Codes, rsp : SUBSET Codes]
Commands == [kind : {"none", "transfer", "access", "too_long", "refused"},
             family : Families, code : Codes, protection : Protections,
             route : Routes]

\* Type invariant; an access condition stays within its two bits.
TypeOK ==
    /\ perso_info \in [Families -> WordSets]
    /\ pc \in {"idle", "query", "store"} /\ record \in 1..(Len(table) + 1)
    /\ loaded \in BOOLEAN /\ leaked \subseteq ZoneCodes
    /\ last \in Commands

\* What the secure element demands for the command of a record.
Demanded(r) == IF r.cmd = 1 \/ r.rsp = 1 THEN "encrypted"
               ELSE IF r.AC # FREE THEN "authenticated" ELSE "raw"

\* Records the packed fields can hold once those before n are stored: not
\* the extended command 0, no access condition above 3, and none above 3
\* stored later in the field before it.
Holds(i, n) ==
    LET r == table[i]
    IN /\ ~(r.header = Prefix /\ r.extended_header = 0)
       /\ r.AC <= 3
       /\ \A j \in (i + 1)..(n - 1) :
             FamilyOf(table[j]) = FamilyOf(r) /\ CodeOf(table[j]) + 1 = CodeOf(r)
             => table[j].AC <= 3
Representable(i) == Holds(i, Len(table) + 1)

IsAbout(i, family, code) == FamilyOf(table[i]) = family /\ CodeOf(table[i]) = code
Reported(family, code) == {i \in DOMAIN table : IsAbout(i, family, code)}

\* A zone access that was too long may leave its protection behind.
Raised(family, code, route) ==
    IF route = "raw" /\ family = "plain" /\ code \in leaked
    THEN {"raw", "authenticated"} ELSE {route}

\* After a successful update a command goes the way its record demands, and
\* one that is not in the table is sent as it is (stsafea_perso_info_update and
\* the dispatch of stsafea_frame_transfer): whatever zone accesses, with
\* whatever protection, came between (but for those that were too long).
RouteFollowsTable ==
    loaded => \A family \in Families, code \in Codes :
        LET route == Route(perso_info, family, code)
        IN /\ \A i \in Reported(family, code) : Representable(i) =>
                 route \in Raised(family, code, Demanded(table[i]))
           /\ Reported(family, code) = {} /\ ~(family = "plain" /\ code = Prefix) =>
                 route \in Raised(family, code, "raw")

\* Why RouteFollowsTable is inductive: the fields after the first records
\* are stored, up to what a zone access left behind.
Stored(n) ==
    \A family \in Families, code \in Codes : ~(family = "plain" /\ code = Prefix) =>
        LET w == perso_info[family]
            Raise == IF family = "plain" /\ code \in leaked THEN {HOST} ELSE {}
        IN /\ (\A i \in 1..(n - 1) : ~IsAbout(i, family, code)) =>
                 /\ w.AC[code] \in {FREE} \cup Raise
                 /\ code \notin w.cmd \cup w.rsp
           /\ \A i \in 1..(n - 1) : IsAbout(i, family, code) /\ Holds(i, n) =>
                 /\ w.AC[code] \in {table[i].AC} \cup Raise
                 /\ code \in w.cmd <=> table[i].cmd = 1
                 /\ code \in w.rsp <=> table[i].rsp = 1
StoreInv ==
    /\ pc # "idle" => ~loaded /\ leaked = {}
    /\ pc = "query" => perso_info = Cleared
    /\ pc = "store" => Stored(record)
    /\ loaded => Stored(Len(table) + 1)

Strength(route) == CASE route = "none" -> 0 [] route = "raw" -> 1
                     [] route = "authenticated" -> 2 [] route = "encrypted" -> 3

\* The protection of a zone access only ever adds: one that asks for a C-MAC
\* is never sent without, and whatever is asked, none is sent with less than
\* its record demands (switch of the access protection, line 33).
AccessIsProtected ==
    last.kind = "access" =>
        /\ last.protection = "HOST_C_MAC_R_MAC" => Strength(last.route) >= 2
        /\ loaded => \A i \in Reported("plain", last.code) : Representable(i) =>
               Strength(last.route) >= Strength(Demanded(table[i]))

\* The update stores the command authorisation configuration: every command
\* the secure element only takes through a session is sent through it.
ConfigIsStored ==
    loaded => \A i \in DOMAIN table :
        Demanded(table[i]) # "raw"
        => Route(perso_info, FamilyOf(table[i]), CodeOf(table[i])) # "raw"

\* STSE_NO_PROT: an access without protection, of a command that needs none,
\* is sent without protection.
NoProtIsHonoured ==
    loaded /\ last.kind = "access" /\ last.protection = "NO_PROT" =>
        \A i \in Reported("plain", last.code) :
            Demanded(table[i]) = "raw" => last.route = "raw"
=============================================================================
