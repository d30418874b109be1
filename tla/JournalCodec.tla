---------------------------- MODULE JournalCodec ----------------------------
(***************************************************************************)
(* The file format of the cloud journal.  A file is a magic number and     *)
(* entries one after the other; an entry is a head (type, table, row id),  *)
(* the nonce with the sealed data, and an HMAC over the two.  Both keys    *)
(* are derived from the vault key and the provider's id.                   *)
(*                                                                         *)
(* A file is a sequence of fields.  What may happen to one in storage: it  *)
(* is cut, a field of it is damaged, whole entries of it are repeated, or  *)
(* it is put in the place of another provider's.  Cryptography is ideal:   *)
(* an HMAC holds the key and the fields it was made from.  A damaged       *)
(* length misplaces what follows, which is damage too.                     *)
(***************************************************************************)
EXTENDS Maps, Sequences, SequencesExt

CONSTANTS
    JProviders,     \* providers, each with a journal
    JTables,        \* tables a caller may name
    JAllowed,       \* those of the vault's schema (ALLOWED_JOURNAL_TABLES)
    JMaxEntries,    \* bound: entries of a journal
    JMaxFaults      \* bound: faults

EntryTypes == {"INSERT", "UPDATE", "DELETE"}

ASSUME JournalAssumption ==
    /\ JAllowed \subseteq JTables /\ {JMaxEntries, JMaxFaults} \subseteq Nat
    /\ None \notin [type : EntryTypes, table : JTables, row : Nat, data : Nat]

VARIABLES
    jBuffer,    \* the serialized entries of each provider's VaultJournal
    jNoted,     \* history: what was appended, in order
    jFile,      \* the journal file of each provider
    jFaults,    \* history: what happened to files, <<provider, what>>
    jRead       \* what the last replay of each provider parsed

jcVars == <<jBuffer, jNoted, jFile, jFaults, jRead>>

Magic == [f |-> "magic"]
DamagedField == [f |-> "damaged"]

\* derive_per_vault_journal_keys
KeysFor(p) == <<"journal", p>>
HeadField(e) == [f |-> "head", type |-> e.type, table |-> e.table, row |-> e.row]
SealedField(p, e) == [f |-> "sealed", key |-> KeysFor(p), data |-> e.data]
HmacField(p, head, enc) == [f |-> "hmac", key |-> KeysFor(p), over |-> <<head, enc>>]

\* serialize_entry refuses a table outside the schema.
SerializeEntry(p, e) ==
    IF e.table \notin JAllowed THEN None
    ELSE <<HeadField(e), SealedField(p, e), HmacField(p, HeadField(e), SealedField(p, e))>>

\* The magic number, and the three fields of each entry.
BuildJournalFile(entries) ==
    [k \in 1..(1 + 3 * Len(entries)) |->
        IF k = 1 THEN Magic ELSE entries[((k - 2) \div 3) + 1][((k - 2) % 3) + 1]]

\* Mutant: entries are not bound to their provider.
HmacHoldsAnyKey(p, head, enc, mac) == mac.f = "hmac" /\ mac.over = <<head, enc>>
HmacHolds(p, head, enc, mac) == mac = HmacField(p, head, enc)

\* One entry; None if anything about it is wrong.
ParseEntry(p, head, enc, mac) ==
    IF head.f # "head" \/ enc.f # "sealed" THEN None
    ELSE IF head.type \notin EntryTypes \/ head.table \notin JAllowed THEN None
    ELSE IF ~HmacHolds(p, head, enc, mac) THEN None
    ELSE [type |-> head.type, table |-> head.table, row |-> head.row, data |-> enc.data]
ParsedAt(p, file, k) == ParseEntry(p, file[3 * k - 1], file[3 * k], file[3 * k + 1])

\* Mutant: what precedes the first bad entry is returned.
ParseJournalLenient(p, file) ==
    IF file = <<>> \/ Head(file) # Magic THEN None
    ELSE SelectSeq([k \in 1..(Len(file) - 1) \div 3 |-> ParsedAt(p, file, k)],
                   LAMBDA e : e # None)
\* parse_journal: all entries up to the end of the file, or an error.
ParseJournal(p, file) ==
    IF file = <<>> \/ Head(file) # Magic \/ (Len(file) - 1) % 3 # 0 THEN None
    ELSE LET es == [k \in 1..(Len(file) - 1) \div 3 |-> ParsedAt(p, file, k)] IN
         IF None \in Range(es) THEN None ELSE es

JcInit ==
    /\ jBuffer = [p \in JProviders |-> <<>>] /\ jNoted = jBuffer
    /\ jFile = [p \in JProviders |-> None] /\ jFaults = <<>>
    /\ jRead = [p \in JProviders |-> None]

\* append() returns an error for a table that is not allowed.
JAppend(p, type, table) ==
    LET n == Len(jNoted[p]) + 1 IN
    LET e == [type |-> type, table |-> table, row |-> n, data |-> n] IN
    LET bytes == SerializeEntry(p, e) IN
    /\ n <= JMaxEntries /\ jFile[p] = None /\ jRead[p] = None
    /\ IF bytes = None THEN UNCHANGED <<jBuffer, jNoted>>
       ELSE /\ jBuffer' = [jBuffer EXCEPT ![p] = Append(@, bytes)]
            /\ jNoted' = [jNoted EXCEPT ![p] = Append(@, e)]
    /\ UNCHANGED <<jFile, jFaults, jRead>>

\* flush() uploads nothing when the buffer is empty.
JFlush(p) ==
    /\ jBuffer[p] # <<>> /\ jFile[p] = None /\ jRead[p] = None
    /\ jFile' = [jFile EXCEPT ![p] = BuildJournalFile(jBuffer[p])]
    /\ UNCHANGED <<jBuffer, jNoted, jFaults, jRead>>

Fault(p, what, file) ==
    /\ jFile[p] # None /\ Len(jFaults) < JMaxFaults
    /\ jFile' = [jFile EXCEPT ![p] = file] /\ jFaults' = Append(jFaults, <<p, what>>)
    /\ UNCHANGED <<jBuffer, jNoted, jRead>>
JCutShort(p) == \E k \in 0..Len(jFile[p]) - 1 : Fault(p, "cut", SubSeq(jFile[p], 1, k))
JDamage(p) == \E k \in 1..Len(jFile[p]) : Fault(p, "damage", [jFile[p] EXCEPT ![k] = DamagedField])
JRepeat(p) == Len(jFile[p]) >= 4 /\ Fault(p, "repeat", jFile[p] \o SubSeq(jFile[p], 2, 4))
JSwap(p, q) == p # q /\ jFile[q] # None /\ Fault(p, "swap", jFile[q])

\* replayIfExists() parses the file and deletes it in any case; that the delete fails is ignored.
JReplay(p) ==
    /\ jFile[p] # None
    /\ jRead' = [jRead EXCEPT ![p] = [got |-> ParseJournal(p, jFile[p]), of |-> jFile[p]]]
    /\ jFile' \in {jFile, [jFile EXCEPT ![p] = None]}
    /\ UNCHANGED <<jBuffer, jNoted, jFaults>>

JcNext == \E p \in JProviders :
    \/ \E type \in EntryTypes, table \in JTables : JAppend(p, type, table)
    \/ JFlush(p) \/ JReplay(p)
    \/ jFile[p] # None /\ (JCutShort(p) \/ JDamage(p) \/ JRepeat(p))
    \/ \E q \in JProviders : JSwap(p, q)

JcSpec == JcInit /\ [][JcNext]_jcVars
-----------------------------------------------------------------------------
ReadOf(p) == jRead[p].got

\* Whatever happened to the file, each entry that a replay takes from it was appended to
\* this provider's journal, as it was: table, row and data belong together.
ReadWasNoted ==
    \A p \in JProviders : jRead[p] # None =>
        ReadOf(p) = None \/ Range(ReadOf(p)) \subseteq Range(jNoted[p])

\* A file nothing happened to is read whole.  One that was only cut gives the entries up
\* to the cut when that is at the end of an entry, and nothing otherwise (fail closed).
WholeOrNothing ==
    \A p \in JProviders : 
          jRead[p] # None /\ (\A x \in Range(jFaults) : x[1] = p => x[2] = "cut") =>
        ReadOf(p) = IF Len(jRead[p].of) % 3 # 1 THEN None
                    ELSE SubSeq(jNoted[p], 1, Len(jRead[p].of) \div 3)

\* What the journal's codec promises for any file: each entry that is read was written for that
\* provider, and a file that was only cut gives its first entries in their order, or none when
\* the cut is inside an entry.
JournalInv == ReadWasNoted /\ WholeOrNothing
=============================================================================
