----------------------------- MODULE WalProofs -----------------------------
(***************************************************************************)
(* For any number of pages, transactions and records: the log numbers and  *)
(* chains its records (whatever its surroundings do), and recovery         *)
(* restores a committed state wherever the process dies, as long as every  *)
(* step has met the needs that kept records.                               *)
(***************************************************************************)
EXTENDS Wal, NatFacts, SequenceTheorems

Log == wal_file \o buffer

\* The log file as it would be if the process died after n records of the
\* log had reached it.
Prefix(n) == SubSeq(Log, 1, n)

-----------------------------------------------------------------------------
(* What a log s, with the database file d beside it, says about page p.    *)

Updates(s, p) == {i \in 1 .. Len(s) : s[i].type = "update" /\ s[i].page = p}

Won(s, p) == {i \in Updates(s, p) : Committed(s, s[i].tx)}

\* The changes of p that recovery looks at.
Recent(s, p) ==
  {i \in Updates(s, p) : \A k \in 1 .. Len(s) : s[k].type = "checkpoint" => k < i}

\* The page before the log's first change of it.
Base(s, d, p) == IF Updates(s, p) = {} THEN d[p] ELSE s[Min(Updates(s, p))].old

\* The page after the log's last change of it that has a COMMIT.
Restored(s, d, p) == IF Won(s, p) = {} THEN Base(s, d, p) ELSE s[Max(Won(s, p))].new

-----------------------------------------------------------------------------
(* How the records of a log s relate.                                      *)

\* Transactions change a page one after the other: a change is followed by
\* its COMMIT before another transaction changes the page.
Serial(s) ==
  \A i, j \in 1 .. Len(s) :
    (/\ i < j /\ s[i].type = "update" /\ s[j].type = "update"
     /\ s[i].page = s[j].page /\ s[i].tx # s[j].tx)
    => \E k \in (i + 1) .. (j - 1) : s[k].type = "commit" /\ s[k].tx = s[i].tx

\* A change starts from what the change before it left.
Chained(s) ==
  \A i, j \in 1 .. Len(s) :
    (/\ i < j /\ s[i].type = "update" /\ s[j].type = "update" /\ s[i].page = s[j].page
     /\ \A k \in (i + 1) .. (j - 1) : ~(s[k].type = "update" /\ s[k].page = s[i].page))
    => s[j].old = s[i].new

\* No transaction that changed a page goes on after a checkpoint.
Quiet(s) ==
  \A i, k, j \in 1 .. Len(s) :
    i < k /\ k < j /\ s[i].type = "update" /\ s[k].type = "checkpoint" => s[i].tx # s[j].tx

\* A COMMIT follows the changes of its transaction.
CommitLast(s) ==
  \A i, k \in 1 .. Len(s) :
    s[i].type = "update" /\ s[k].type = "commit" /\ s[i].tx = s[k].tx => i < k

Tidy(s) == Serial(s) /\ Chained(s) /\ Quiet(s) /\ CommitLast(s)

-----------------------------------------------------------------------------
(* The inductive invariant, first what does not depend on the needs.       *)

WalTypeOK ==
  /\ up \in BOOLEAN
  /\ wal_file \in Seq(Record) /\ buffer \in Seq(Record)
  /\ spilled \in 0 .. Len(buffer)
  /\ next_lsn \in Nat \ {0} /\ next_tx_id \in Nat \ {0} /\ flushed_lsn \in Nat
  /\ active_tx \in Seq(Nat \ {0}) /\ active_tx_lsn \in Seq(Nat)
  /\ Len(active_tx_lsn) = Len(active_tx)
  /\ pool \in [Page -> Value] /\ disk \in [Page -> Value]
  /\ page_lsn \in [Page -> Nat] /\ owner \in [Page -> Nat]
  /\ versions \in Seq([Page -> Value]) /\ versions # <<>>
  /\ crashes \in Nat

\* Records are numbered without gaps; none is torn.
Numbered(s) ==
  /\ \A i \in 1 .. Len(s) : s[i].lsn > 0 /\ s[i].type # "torn"
  /\ \A i, j \in 1 .. Len(s) : s[i].lsn - s[j].lsn = i - j

\* Each record of a transaction names the one before.
Backlinked(s) ==
  \A i, j \in 1 .. Len(s) :
    (/\ j < i /\ s[j].tx = s[i].tx /\ s[i].tx # 0
     /\ \A k \in (j + 1) .. (i - 1) : s[k].tx # s[i].tx)
    => s[i].prev = s[j].lsn

\* The counters go with the log.
Counters ==
  up => /\ \A i \in 1 .. Len(Log) : Log[i].lsn = next_lsn - 1 - (Len(Log) - i)
        /\ \A i \in 1 .. Len(Log) : Log[i].tx < next_tx_id
        /\ Len(buffer) <= BufferRecords
        /\ flushed_lsn = next_lsn - 1 - Len(buffer)

\* active_tx holds each id once, beside the lsn of its last record.
ActiveOK ==
  /\ \A a \in 1 .. Len(active_tx) : active_tx[a] < next_tx_id
  /\ \A a, b \in 1 .. Len(active_tx) : active_tx[a] = active_tx[b] => a = b
  /\ \A a \in 1 .. Len(active_tx), i \in 1 .. Len(Log) :
       (/\ Log[i].tx = active_tx[a]
        /\ \A k \in (i + 1) .. Len(Log) : Log[k].tx # active_tx[a])
       => active_tx_lsn[a] = Log[i].lsn

\* Nothing runs while the process is down.
DownOK == ~up => buffer = <<>> /\ active_tx = <<>> /\ owner = Clean /\ page_lsn = Clean

LogInv ==
  /\ WalTypeOK /\ Numbered(Log) /\ Backlinked(Log)
  /\ Counters /\ ActiveOK /\ DownOK

-----------------------------------------------------------------------------
(* The rest, as long as every need is met.                                 *)

\* The log against the transactions: updates and commits have an id, what is
\* active has no COMMIT and nothing before a checkpoint.
OpenOK ==
  /\ \A i \in 1 .. Len(Log) :
       /\ Log[i].type \in {"update", "commit"} => Log[i].tx # 0
       /\ Log[i].type = "update" => Log[i].page \in Page
  /\ \A i \in 1 .. Len(Log) :
       Log[i].type \in {"update", "commit"} /\ IsActive(Log[i].tx) =>
         /\ Log[i].type = "update"
         /\ owner[Log[i].page] = Log[i].tx
         /\ \A k \in i .. Len(Log) : Log[k].type # "checkpoint"

\* The pages as the clients see them: a locked page is as its transaction's
\* last change left it, another one as recovery would restore it.
PoolOK ==
  up => \A p \in Page :
          /\ owner[p] = 0 => pool[p] = Restored(Log, disk, p)
          /\ owner[p] # 0 =>
               /\ IsActive(owner[p])
               /\ Updates(Log, p) # {}
               /\ LET i == Max(Updates(Log, p))
                  IN  Log[i].tx = owner[p] /\ Log[i].new = pool[p]

\* Changes still in the buffer are marked in the page.
DirtyOK ==
  \A p \in Page : \A i \in Updates(Log, p) :
    i > Len(wal_file) => Log[i].lsn <= page_lsn[p]

\* However much of the buffer reaches the file (the file holds w records of
\* the log s, d is the database file and vs are the versions): a page that
\* recovery does not look at has its restored content on disk,
DiskSays(s, w, d) ==
  \A n \in w .. Len(s), p \in Page :
    Recent(SubSeq(s, 1, n), p) = {} => d[p] = Restored(SubSeq(s, 1, n), d, p)

\* and what is restored is the database after some COMMIT record,
VersionsSay(s, w, d, vs) ==
  \A n \in w .. Len(s) : \E k \in 1 .. Len(vs) :
    \A p \in Page : vs[k][p] = Restored(SubSeq(s, 1, n), d, p)

\* after the last one if all of the log is there.
LastSays == up => \A p \in Page : versions[Len(versions)][p] = Restored(Log, disk, p)

DiskOK == DiskSays(Log, Len(wal_file), disk)
VersionsOK == VersionsSay(Log, Len(wal_file), disk, versions) /\ LastSays

WalInv ==
  /\ LogInv /\ Tidy(Log) /\ OpenOK /\ PoolOK /\ DirtyOK /\ DiskOK /\ VersionsOK

-----------------------------------------------------------------------------
(* Sequences of records.                                                   *)

LEMMA RecordFields ==
  ASSUME NEW r \in Record
  PROVE  /\ r.lsn \in Nat /\ r.prev \in Nat /\ r.tx \in Nat /\ r.type \in Types
         /\ r.old \in Value /\ r.new \in Value
  BY DEF Record

LEMMA AppendFacts ==
  ASSUME NEW s \in Seq(Record), NEW r \in Record
  PROVE  /\ Append(s, r) \in Seq(Record) /\ Len(s) \in Nat
         /\ Len(Append(s, r)) = Len(s) + 1
         /\ \A i \in 1 .. (Len(s) + 1) :
              Append(s, r)[i] = IF i = Len(s) + 1 THEN r ELSE s[i]
  <1>1. Len(s) \in Nat BY LenProperties
  <1>2. QED BY <1>1, AppendProperties

LEMMA PrefixFacts ==
  ASSUME NEW s \in Seq(Record), NEW n \in 0 .. Len(s)
  PROVE  /\ SubSeq(s, 1, n) \in Seq(Record) /\ Len(SubSeq(s, 1, n)) = n
         /\ \A i \in 1 .. n : SubSeq(s, 1, n)[i] = s[i]
  <1>1. Len(s) \in Nat BY LenProperties
  <1>2. \A i \in 1 .. n : s[i] \in Record BY <1>1, ElementOfSeq
  <1>3. QED BY <1>1, <1>2, SubSeqProperties

\* A prefix of an appended log is a prefix of the log, or all of it.
LEMMA PrefixAppend ==
  ASSUME NEW s \in Seq(Record), NEW r \in Record, NEW n \in 0 .. Len(s)
  PROVE  SubSeq(Append(s, r), 1, n) = SubSeq(s, 1, n)
  <1>1. Len(s) \in Nat BY LenProperties
  <1>2. n \in 0 .. Len(Append(s, r)) BY <1>1, AppendFacts
  <1>3. /\ SubSeq(Append(s, r), 1, n) \in Seq(Record)
        /\ Len(SubSeq(Append(s, r), 1, n)) = n
        /\ \A i \in 1 .. n : SubSeq(Append(s, r), 1, n)[i] = Append(s, r)[i]
    BY <1>2, AppendFacts, PrefixFacts
  <1>4. /\ SubSeq(s, 1, n) \in Seq(Record) /\ Len(SubSeq(s, 1, n)) = n
        /\ \A i \in 1 .. n : SubSeq(s, 1, n)[i] = s[i]
    BY PrefixFacts
  <1>5. \A i \in 1 .. n : Append(s, r)[i] = s[i] BY <1>1, AppendFacts
  <1>6. QED BY <1>3, <1>4, <1>5, SeqEqual

LEMMA PrefixAll ==
  ASSUME NEW s \in Seq(Record)
  PROVE  SubSeq(s, 1, Len(s)) = s
  <1>1. Len(s) \in 0 .. Len(s) BY LenProperties
  <1>2. /\ SubSeq(s, 1, Len(s)) \in Seq(Record) /\ Len(SubSeq(s, 1, Len(s))) = Len(s)
        /\ \A i \in 1 .. Len(s) : SubSeq(s, 1, Len(s))[i] = s[i]
    BY <1>1, PrefixFacts
  <1>3. QED BY <1>2, SeqEqual

\* File and buffer together.
LEMMA LogFacts ==
  ASSUME wal_file \in Seq(Record), buffer \in Seq(Record)
  PROVE  /\ Log \in Seq(Record)
         /\ Len(wal_file) \in Nat /\ Len(buffer) \in Nat
         /\ Len(Log) = Len(wal_file) + Len(buffer)
         /\ \A i \in 1 .. Len(wal_file) : Log[i] = wal_file[i]
         /\ \A i \in 1 .. Len(buffer) : Log[Len(wal_file) + i] = buffer[i]
  <1>1. Len(wal_file) \in Nat /\ Len(buffer) \in Nat BY LenProperties
  <1>2. QED BY <1>1, ConcatProperties DEF Log

-----------------------------------------------------------------------------
(* The log's own order, under any surroundings.                            *)

LEMMA NumberedAppend ==
  ASSUME NEW s \in Seq(Record), NEW r \in Record, Numbered(s),
         r.lsn > 0, r.type # "torn",
         \A i \in 1 .. Len(s) : s[i].lsn = r.lsn - 1 - (Len(s) - i)
  PROVE  Numbered(Append(s, r))
  <1> DEFINE q == Append(s, r)
  <1>1. /\ Len(s) \in Nat /\ Len(q) = Len(s) + 1
        /\ \A i \in 1 .. (Len(s) + 1) : q[i] = IF i = Len(s) + 1 THEN r ELSE s[i]
    BY AppendFacts
  <1>2. r.lsn \in Nat BY RecordFields
  <1>3. \A i \in 1 .. Len(q) : q[i].lsn = r.lsn - (Len(q) - i) BY <1>1, <1>2
  <1>4. \A i \in 1 .. Len(q) : q[i].lsn > 0 /\ q[i].type # "torn"
    BY <1>1 DEF Numbered
  <1> HIDE DEF q
  <1>5. \A i, j \in 1 .. Len(q) : q[i].lsn - q[j].lsn = i - j
    BY <1>1, <1>2, <1>3
  <1>6. QED BY <1>4, <1>5 DEF Numbered, q

LEMMA BacklinkedAppend ==
  ASSUME NEW s \in Seq(Record), NEW r \in Record, Backlinked(s),
         \A j \in 1 .. Len(s) :
           (/\ s[j].tx = r.tx /\ r.tx # 0
            /\ \A k \in (j + 1) .. Len(s) : s[k].tx # r.tx)
           => r.prev = s[j].lsn
  PROVE  Backlinked(Append(s, r))
  <1> DEFINE q == Append(s, r)
  <1>1. /\ Len(s) \in Nat /\ Len(q) = Len(s) + 1
        /\ \A i \in 1 .. (Len(s) + 1) : q[i] = IF i = Len(s) + 1 THEN r ELSE s[i]
    BY AppendFacts
  <1> HIDE DEF q
  <1> SUFFICES ASSUME NEW i \in 1 .. Len(q), NEW j \in 1 .. Len(q),
                      j < i, q[j].tx = q[i].tx, q[i].tx # 0,
                      \A k \in (j + 1) .. (i - 1) : q[k].tx # q[i].tx
               PROVE  q[i].prev = q[j].lsn
    BY DEF Backlinked, q
  <1>2. j \in 1 .. Len(s) /\ q[j] = s[j] BY <1>1
  <1>3. CASE i = Len(s) + 1
    <2>1. q[i] = r BY <1>1, <1>3
    <2>2. \A k \in (j + 1) .. Len(s) : s[k].tx # r.tx BY <1>1, <1>2, <1>3, <2>1
    <2>3. QED BY <1>2, <2>1, <2>2
  <1>4. CASE i # Len(s) + 1
    <2>1. i \in 1 .. Len(s) /\ q[i] = s[i] BY <1>1, <1>4
    <2>2. \A k \in (j + 1) .. (i - 1) : s[k].tx # s[i].tx BY <1>1, <1>2, <2>1
    <2>3. QED BY <1>2, <2>1, <2>2 DEF Backlinked
  <1>5. QED BY <1>3, <1>4

LEMMA OrderPrefix ==
  ASSUME NEW s \in Seq(Record), NEW n \in 0 .. Len(s), Numbered(s), Backlinked(s)
  PROVE  Numbered(SubSeq(s, 1, n)) /\ Backlinked(SubSeq(s, 1, n))
  <1> DEFINE q == SubSeq(s, 1, n)
  <1>1. Len(s) \in Nat /\ Len(q) = n /\ \A i \in 1 .. n : q[i] = s[i]
    BY PrefixFacts, LenProperties
  <1> HIDE DEF q
  <1>2. \A i \in 1 .. n : i \in 1 .. Len(s) BY <1>1
  <1>3. Numbered(q) BY <1>1, <1>2 DEF Numbered
  <1>4. ASSUME NEW i \in 1 .. n, NEW j \in 1 .. n, j < i, q[j].tx = q[i].tx, q[i].tx # 0,
               \A k \in (j + 1) .. (i - 1) : q[k].tx # q[i].tx
        PROVE  q[i].prev = q[j].lsn
    <2>1. \A k \in (j + 1) .. (i - 1) : s[k].tx # s[i].tx BY <1>1, <1>4
    <2>2. QED BY <1>1, <1>2, <1>4, <2>1 DEF Backlinked
  <1>5. Backlinked(q) BY <1>1, <1>4 DEF Backlinked
  <1>6. QED BY <1>3, <1>5 DEF q

\* flushed_lsn after a flush.
LEMMA HighestIs ==
  ASSUME LogInv, up
  PROVE  /\ HighestLsn(buffer, flushed_lsn) = next_lsn - 1
         /\ \A r \in Record : r.lsn = next_lsn =>
              HighestLsn(Append(buffer, r), flushed_lsn) = next_lsn
  <1> USE DEF LogInv
  <1>1. /\ Len(buffer) \in Nat /\ next_lsn \in Nat \ {0} /\ flushed_lsn \in Nat
        /\ flushed_lsn = next_lsn - 1 - Len(buffer) /\ buffer \in Seq(Record)
    BY LogFacts DEF WalTypeOK, Counters
  <1>2. \A i \in 1 .. Len(buffer) : buffer[i].lsn = next_lsn - 1 - (Len(buffer) - i)
    <2> SUFFICES ASSUME NEW i \in 1 .. Len(buffer)
                 PROVE  buffer[i].lsn = next_lsn - 1 - (Len(buffer) - i)
      OBVIOUS
    <2>1. Len(wal_file) + i \in 1 .. Len(Log) /\ Log[Len(wal_file) + i] = buffer[i]
      BY LogFacts DEF WalTypeOK
    <2>2. Len(wal_file) \in Nat /\ Len(Log) = Len(wal_file) + Len(buffer)
      BY LogFacts DEF WalTypeOK
    <2>3. Log[Len(wal_file) + i].lsn = next_lsn - 1 - (Len(Log) - (Len(wal_file) + i))
      BY <2>1 DEF Counters
    <2>4. QED BY <1>1, <2>1, <2>2, <2>3
  <1>3. HighestLsn(buffer, flushed_lsn) = next_lsn - 1
    <2> DEFINE S == {flushed_lsn} \cup {buffer[i].lsn : i \in 1 .. Len(buffer)}
    <2>1. S \subseteq Nat /\ \A x \in S : x <= next_lsn - 1 BY <1>1, <1>2
    <2>2. next_lsn - 1 \in S
      <3>1. CASE Len(buffer) = 0 BY <1>1, <3>1
      <3>2. CASE Len(buffer) # 0
        <4>1. Len(buffer) \in 1 .. Len(buffer) /\ buffer[Len(buffer)].lsn = next_lsn - 1
          BY <1>1, <1>2, <3>2
        <4>2. QED BY <4>1
      <3>3. QED BY <3>1, <3>2
    <2>3. Max(S) = next_lsn - 1 BY <2>1, <2>2, MaxIs
    <2>4. QED BY <2>3 DEF HighestLsn
  <1>4. ASSUME NEW r \in Record, r.lsn = next_lsn
        PROVE  HighestLsn(Append(buffer, r), flushed_lsn) = next_lsn
    <2> DEFINE q == Append(buffer, r)
               S == {flushed_lsn} \cup {q[i].lsn : i \in 1 .. Len(q)}
    <2>1. /\ Len(q) = Len(buffer) + 1
          /\ \A i \in 1 .. (Len(buffer) + 1) : q[i] = IF i = Len(buffer) + 1 THEN r ELSE buffer[i]
      BY <1>1, AppendFacts
    <2> HIDE DEF q
    <2>2. ASSUME NEW i \in 1 .. Len(q) PROVE q[i].lsn \in Nat /\ q[i].lsn <= next_lsn
      <3>1. CASE i = Len(buffer) + 1 BY <1>1, <1>4, <2>1, <3>1
      <3>2. CASE i # Len(buffer) + 1
        <4>1. i \in 1 .. Len(buffer) /\ q[i] = buffer[i] BY <1>1, <2>1, <3>2
        <4>2. buffer[i].lsn = next_lsn - 1 - (Len(buffer) - i) /\ buffer[i] \in Record
          BY <1>1, <1>2, <4>1, ElementOfSeq
        <4>3. buffer[i].lsn \in Nat BY <4>2, RecordFields
        <4>4. QED BY <1>1, <4>1, <4>2, <4>3
      <3>3. QED BY <3>1, <3>2
    <2>3. S \subseteq Nat /\ \A x \in S : x <= next_lsn BY <1>1, <2>2
    <2>4. Len(q) \in 1 .. Len(q) /\ q[Len(q)].lsn = next_lsn BY <1>1, <1>4, <2>1
    <2>5. next_lsn \in S BY <2>4
    <2>6. Max(S) = next_lsn BY <1>1, <2>3, <2>5, MaxIs
    <2>7. QED BY <2>6 DEF HighestLsn, q
  <1>5. QED BY <1>3, <1>4

\* A record that goes into the buffer is at the end of the log.
LEMMA BufferedFacts ==
  ASSUME LogInv, up, NEW r \in Record, r.lsn = next_lsn, Buffered(r)
  PROVE  /\ wal_file' \in Seq(Record) /\ buffer' \in Seq(Record)
         /\ Log' = Append(Log, r)
         /\ Len(wal_file') \in Len(wal_file) .. Len(Log)
         /\ next_lsn' = next_lsn + 1
         /\ Len(buffer') <= BufferRecords
         /\ flushed_lsn' = next_lsn' - 1 - Len(buffer') /\ flushed_lsn' \in Nat
         /\ StillSpilled \in 0 .. Len(buffer')
  <1> USE DEF LogInv
  <1>1. /\ wal_file \in Seq(Record) /\ buffer \in Seq(Record)
        /\ Len(wal_file) \in Nat /\ Len(buffer) \in Nat /\ next_lsn \in Nat /\ flushed_lsn \in Nat
        /\ spilled \in 0 .. Len(buffer)
        /\ Len(buffer) <= BufferRecords /\ flushed_lsn = next_lsn - 1 - Len(buffer)
        /\ Log \in Seq(Record) /\ Len(Log) = Len(wal_file) + Len(buffer)
    BY LogFacts DEF WalTypeOK, Counters
  <1>2. next_lsn' = next_lsn + 1 BY DEF Buffered
  <1>3. CASE Full
    <2>1. buffer' = <<r>> /\ wal_file' = Log /\ flushed_lsn' = HighestLsn(buffer, flushed_lsn)
      BY <1>3 DEF Buffered, Log
    <2>2. buffer' \in Seq(Record) /\ Len(buffer') = 1 BY <2>1
    <2>3. flushed_lsn' = next_lsn - 1 /\ next_lsn - 1 \in Nat
      BY <2>1, HighestIs DEF WalTypeOK
    <2>4. Log' = Append(Log, r)
      <3>1. Log' = Log \o <<r>> BY <2>1 DEF Log
      <3>2. QED BY <1>1, <3>1, AppendIsConcat
    <2>5. StillSpilled \in 0 .. Len(buffer') BY <1>3, <2>2 DEF StillSpilled
    <2>6. Len(buffer') <= BufferRecords BY <2>2, WalConstants
    <2>7. flushed_lsn' = next_lsn' - 1 - Len(buffer') BY <1>1, <1>2, <2>2, <2>3
    <2>8. Len(wal_file') \in Len(wal_file) .. Len(Log) BY <1>1, <2>1
    <2>9. QED BY <1>1, <1>2, <2>1, <2>2, <2>3, <2>4, <2>5, <2>6, <2>7, <2>8
  <1>4. CASE ~Full
    <2>1. buffer' = Append(buffer, r) /\ wal_file' = wal_file /\ flushed_lsn' = flushed_lsn
      BY <1>4 DEF Buffered
    <2>2. buffer' \in Seq(Record) /\ Len(buffer') = Len(buffer) + 1 BY <1>1, <2>1, AppendFacts
    <2>3. Len(buffer') <= BufferRecords BY <1>1, <1>4, <2>2, WalConstants DEF Full
    <2>4. Log' = Append(Log, r)
      <3>1. buffer' = buffer \o <<r>> BY <1>1, <2>1, AppendIsConcat
      <3>2. <<r>> \in Seq(Record) OBVIOUS
      <3>3. Log' = (wal_file \o buffer) \o <<r>>
        BY <1>1, <2>1, <3>1, <3>2, ConcatAssociative DEF Log
      <3>4. QED BY <1>1, <3>3, AppendIsConcat DEF Log
    <2>5. QED BY <1>1, <1>2, <1>4, <2>1, <2>2, <2>3, <2>4 DEF StillSpilled
  <1>5. QED BY <1>3, <1>4

\* So is one that is flushed at once.
LEMMA AppendFlushFacts ==
  ASSUME LogInv, up, NEW r \in Record, r.lsn = next_lsn, LogAppendFlush(r)
  PROVE  /\ wal_file' \in Seq(Record) /\ buffer' = <<>> /\ spilled' = 0
         /\ Log' = Append(Log, r) /\ wal_file' = Log'
         /\ next_lsn' = next_lsn + 1
         /\ flushed_lsn' = next_lsn
  <1>1. Log \in Seq(Record) BY LogFacts DEF LogInv, WalTypeOK
  <1>2. wal_file' = Append(Log, r) /\ buffer' = <<>> /\ spilled' = 0 /\ next_lsn' = next_lsn + 1
    BY DEF LogAppendFlush, Log
  <1>3. Append(Log, r) \in Seq(Record) BY <1>1, AppendFacts
  <1>4. Log' = wal_file' BY <1>2, <1>3, ConcatEmptySeq DEF Log
  <1>5. flushed_lsn' = next_lsn BY HighestIs DEF LogAppendFlush
  <1>6. QED BY <1>2, <1>3, <1>4, <1>5

\* The three ways a record joins the log.
Joins(r) == LogAppend(r) \/ LogAppendFlush(r) \/ LogAppendFlushFail(r)

LEMMA JoinsFacts ==
  ASSUME LogInv, up, NEW r \in Record, r.lsn = next_lsn, Joins(r)
  PROVE  /\ wal_file' \in Seq(Record) /\ buffer' \in Seq(Record)
         /\ Log' = Append(Log, r) /\ Log \in Seq(Record)
         /\ Len(wal_file') \in Len(wal_file) .. Len(Log')
         /\ LogAppendFlush(r) => Len(wal_file') = Len(Log')
         /\ next_lsn' = next_lsn + 1
         /\ Len(buffer') <= BufferRecords
         /\ flushed_lsn' = next_lsn' - 1 - Len(buffer') /\ flushed_lsn' \in Nat
         /\ spilled' \in 0 .. Len(buffer')
  <1>1. Log \in Seq(Record) /\ Len(Log) \in Nat /\ Len(wal_file) \in Nat
        /\ Len(wal_file) <= Len(Log)
    BY LogFacts DEF LogInv, WalTypeOK
  <1>2. Len(Append(Log, r)) = Len(Log) + 1 BY <1>1, AppendFacts
  <1>3. CASE LogAppendFlush(r)
    <2>1. /\ wal_file' \in Seq(Record) /\ buffer' = <<>> /\ spilled' = 0
          /\ Log' = Append(Log, r) /\ wal_file' = Log'
          /\ next_lsn' = next_lsn + 1 /\ flushed_lsn' = next_lsn
      BY <1>3, AppendFlushFacts
    <2>2. Len(buffer') = 0 /\ buffer' \in Seq(Record) BY <2>1
    <2>3. next_lsn \in Nat BY DEF LogInv, WalTypeOK
    <2>4. QED BY <1>1, <1>2, <2>1, <2>2, <2>3, WalConstants
  <1>4. CASE Buffered(r) /\ ~LogAppendFlush(r) /\ spilled' \in 0 .. Len(buffer')
    <2>1. /\ wal_file' \in Seq(Record) /\ buffer' \in Seq(Record)
          /\ Log' = Append(Log, r)
          /\ Len(wal_file') \in Len(wal_file) .. Len(Log)
          /\ next_lsn' = next_lsn + 1
          /\ Len(buffer') <= BufferRecords
          /\ flushed_lsn' = next_lsn' - 1 - Len(buffer') /\ flushed_lsn' \in Nat
      BY <1>4, BufferedFacts
    <2>2. QED BY <1>1, <1>2, <1>4, <2>1
  <1>5. LogAppend(r) => Buffered(r) /\ spilled' \in 0 .. Len(buffer')
    BY BufferedFacts DEF LogAppend
  <1>6. LogAppendFlushFail(r) => Buffered(r) /\ spilled' \in 0 .. Len(buffer')
    <2> SUFFICES ASSUME LogAppendFlushFail(r) PROVE Buffered(r) /\ spilled' \in 0 .. Len(buffer')
      OBVIOUS
    <2>1. Buffered(r) BY DEF LogAppendFlushFail
    <2>2. PICK n \in StillSpilled .. Len(buffer') : spilled' = n BY DEF LogAppendFlushFail
    <2>3. StillSpilled \in 0 .. Len(buffer') BY <2>1, BufferedFacts
    <2>4. QED BY <2>1, <2>2, <2>3
  <1>7. QED BY <1>3, <1>4, <1>5, <1>6 DEF Joins

\* The order of the log when a record with the right back link joins it.
LEMMA JoinsOrder ==
  ASSUME LogInv, up, up', NEW r \in Record, r.lsn = next_lsn, r.type # "torn", Joins(r),
         next_tx_id' \in Nat, next_tx_id <= next_tx_id', r.tx < next_tx_id',
         \A j \in 1 .. Len(Log) :
           (/\ Log[j].tx = r.tx /\ r.tx # 0
            /\ \A k \in (j + 1) .. Len(Log) : Log[k].tx # r.tx)
           => r.prev = Log[j].lsn
  PROVE  Numbered(Log') /\ Backlinked(Log') /\ Counters'
  <1> USE DEF LogInv
  <1>1. /\ Log' = Append(Log, r) /\ Log \in Seq(Record) /\ next_lsn' = next_lsn + 1
        /\ Len(buffer') <= BufferRecords /\ flushed_lsn' = next_lsn' - 1 - Len(buffer')
    BY JoinsFacts
  <1>2. next_lsn \in Nat \ {0} /\ next_tx_id \in Nat BY DEF WalTypeOK
  <1>3. \A i \in 1 .. Len(Log) : Log[i].lsn = r.lsn - 1 - (Len(Log) - i) BY DEF Counters
  <1>4. r.lsn > 0 BY <1>2
  <1>5. Numbered(Append(Log, r)) BY <1>1, <1>3, <1>4, NumberedAppend
  <1>6. Backlinked(Append(Log, r)) BY <1>1, BacklinkedAppend
  <1>7. ASSUME NEW i \in 1 .. Len(Log')
        PROVE  Log'[i].lsn = next_lsn' - 1 - (Len(Log') - i) /\ Log'[i].tx < next_tx_id'
    <2>1. /\ Len(Log) \in Nat /\ Len(Log') = Len(Log) + 1
          /\ Log'[i] = IF i = Len(Log) + 1 THEN r ELSE Log[i]
      BY <1>1, AppendFacts
    <2>2. CASE i = Len(Log) + 1 BY <1>1, <1>2, <2>1, <2>2
    <2>3. CASE i # Len(Log) + 1
      <3>1. i \in 1 .. Len(Log) /\ Log'[i] = Log[i] BY <2>1, <2>3
      <3>2. Log[i].tx \in Nat BY <1>1, <3>1, ElementOfSeq, RecordFields
      <3>3. Log[i].lsn = next_lsn - 1 - (Len(Log) - i) /\ Log[i].tx < next_tx_id
        BY <3>1 DEF Counters
      <3>4. QED BY <1>1, <1>2, <2>1, <3>1, <3>2, <3>3
    <2>4. QED BY <2>2, <2>3
  <1>8. Counters' BY <1>1, <1>7 DEF Counters
  <1>9. QED BY <1>1, <1>5, <1>6, <1>8

-----------------------------------------------------------------------------
(* The arrays of active transactions.                                      *)

LEMMA ActiveFacts ==
  ASSUME LogInv, NEW t, IsActive(t)
  PROVE  \E a \in 1 .. Len(active_tx) :
           /\ active_tx[a] = t /\ ActiveIdx(t) = {a} /\ Min(ActiveIdx(t)) = a
           /\ PrevLsn(t) = active_tx_lsn[a] /\ PrevLsn(t) \in Nat
           /\ t \in Nat \ {0} /\ t < next_tx_id
  <1>1. PICK a \in 1 .. Len(active_tx) : active_tx[a] = t BY DEF IsActive, ActiveIdx
  <1>2. ActiveIdx(t) = {a} BY <1>1 DEF ActiveIdx, LogInv, ActiveOK
  <1>3. Min({a}) = a BY DEF Min
  <1>4. active_tx_lsn[a] \in Nat /\ t \in Nat \ {0}
    BY <1>1, ElementOfSeq DEF LogInv, WalTypeOK
  <1>5. t < next_tx_id BY <1>1 DEF LogInv, ActiveOK
  <1>6. PrevLsn(t) = active_tx_lsn[a] BY <1>2, <1>3 DEF PrevLsn
  <1>7. QED BY <1>1, <1>2, <1>3, <1>4, <1>5, <1>6

\* The back link of a transaction that is active, or of a checkpoint.
LEMMA PrevFacts ==
  ASSUME LogInv, NEW t, IsActive(t) \/ t = 0
  PROVE  /\ t \in Nat /\ t < next_tx_id /\ PrevLsn(t) \in Nat
         /\ \A j \in 1 .. Len(Log) :
              (/\ Log[j].tx = t /\ t # 0
               /\ \A k \in (j + 1) .. Len(Log) : Log[k].tx # t)
              => PrevLsn(t) = Log[j].lsn
  <1>1. t \in Nat /\ t < next_tx_id /\ PrevLsn(t) \in Nat
    <2>1. CASE IsActive(t) BY <2>1, ActiveFacts
    <2>2. CASE ~IsActive(t) BY <2>2 DEF PrevLsn, LSN_NULL, LogInv, WalTypeOK
    <2>3. QED BY <2>1, <2>2
  <1>2. ASSUME NEW j \in 1 .. Len(Log), Log[j].tx = t, t # 0,
               \A k \in (j + 1) .. Len(Log) : Log[k].tx # t
        PROVE  PrevLsn(t) = Log[j].lsn
    <2>1. PICK x \in 1 .. Len(active_tx) : active_tx[x] = t /\ PrevLsn(t) = active_tx_lsn[x]
      BY <1>2, ActiveFacts
    <2>2. QED BY <1>2, <2>1 DEF LogInv, ActiveOK
  <1>3. QED BY <1>1, <1>2

\* The record a wal_log_* call builds for such a transaction links back to
\* the one before it.
LEMMA RecFacts ==
  ASSUME LogInv, NEW t, IsActive(t) \/ t = 0, NEW ty \in Types, ty # "torn",
         NEW p \in Page \cup {NoPage}, NEW a \in Value, NEW b \in Value, up
  PROVE  LET r == Rec(t, ty, p, a, b)
         IN  /\ r \in Record /\ r.lsn = next_lsn /\ r.type = ty /\ r.tx = t
             /\ r.page = p /\ r.old = a /\ r.new = b
             /\ t \in Nat /\ t < next_tx_id
             /\ \A j \in 1 .. Len(Log) :
                  (/\ Log[j].tx = r.tx /\ r.tx # 0
                   /\ \A k \in (j + 1) .. Len(Log) : Log[k].tx # r.tx)
                  => r.prev = Log[j].lsn
  <1>1. next_lsn \in Nat BY DEF LogInv, WalTypeOK
  <1>2. t \in Nat /\ PrevLsn(t) \in Nat BY PrevFacts
  <1>3. Rec(t, ty, p, a, b) \in Record BY <1>1, <1>2 DEF Rec, Record
  <1>4. /\ Rec(t, ty, p, a, b).lsn = next_lsn /\ Rec(t, ty, p, a, b).type = ty
        /\ Rec(t, ty, p, a, b).tx = t /\ Rec(t, ty, p, a, b).prev = PrevLsn(t)
        /\ Rec(t, ty, p, a, b).page = p /\ Rec(t, ty, p, a, b).old = a
        /\ Rec(t, ty, p, a, b).new = b
    BY DEF Rec
  <1>5. QED BY <1>3, <1>4, PrevFacts

\* The same for a record that names no page.
LEMMA SimpleRecFacts ==
  ASSUME LogInv, NEW t, IsActive(t) \/ t = 0, NEW ty \in Types, up
  PROVE  LET r == SimpleRec(t, ty)
         IN  /\ r \in Record /\ r.lsn = next_lsn /\ r.type = ty /\ r.tx = t
             /\ t \in Nat /\ t < next_tx_id
             /\ \A j \in 1 .. Len(Log) :
                  (/\ Log[j].tx = r.tx /\ r.tx # 0
                   /\ \A k \in (j + 1) .. Len(Log) : Log[k].tx # r.tx)
                  => r.prev = Log[j].lsn
  <1>1. next_lsn \in Nat BY DEF LogInv, WalTypeOK
  <1>2. t \in Nat /\ PrevLsn(t) \in Nat BY PrevFacts
  <1>3. SimpleRec(t, ty) \in Record BY <1>1, <1>2, WalConstants DEF SimpleRec, Rec, Record
  <1>4. /\ SimpleRec(t, ty).lsn = next_lsn /\ SimpleRec(t, ty).type = ty
        /\ SimpleRec(t, ty).tx = t /\ SimpleRec(t, ty).prev = PrevLsn(t)
    BY DEF SimpleRec, Rec
  <1>5. QED BY <1>3, <1>4, PrevFacts

\* A sequence given by a function on 1 .. n.
LEMMA SeqOf ==
  ASSUME NEW S, NEW n \in Nat, NEW f \in [1 .. n -> S]
  PROVE  f \in Seq(S) /\ Len(f) = n
  BY IsASeq

\* The types of the arrays, and that they fit the log.
ActiveTypes ==
  /\ active_tx \in Seq(Nat \ {0}) /\ active_tx_lsn \in Seq(Nat)
  /\ Len(active_tx_lsn) = Len(active_tx)

LEMMA ActiveMoved ==
  ASSUME LogInv, NEW t, NEW r \in Record, r.lsn = next_lsn, r.tx = t,
         Log' = Append(Log, r), active_tx' = active_tx, active_tx_lsn' = LsnMoved(t),
         next_tx_id' = next_tx_id
  PROVE  ActiveTypes' /\ ActiveOK'
  <1> USE DEF LogInv
  <1> DEFINE N == Len(active_tx)
  <1>1. /\ N \in Nat /\ Len(active_tx_lsn) = N /\ next_lsn \in Nat
        /\ \A a \in 1 .. N : active_tx_lsn[a] \in Nat
    BY LenProperties, ElementOfSeq DEF WalTypeOK
  <1>2. active_tx_lsn' = [i \in 1 .. N |->
                            IF active_tx[i] = t THEN next_lsn ELSE active_tx_lsn[i]]
    BY <1>1 DEF LsnMoved
  <1>3. active_tx_lsn' \in [1 .. N -> Nat] BY <1>1, <1>2
  <1>4. ActiveTypes' BY <1>1, <1>3, SeqOf DEF ActiveTypes, WalTypeOK
  <1>5. /\ Log \in Seq(Record) /\ Len(Log) \in Nat /\ Len(Log') = Len(Log) + 1
        /\ \A i \in 1 .. (Len(Log) + 1) : Log'[i] = IF i = Len(Log) + 1 THEN r ELSE Log[i]
    BY LogFacts, AppendFacts DEF WalTypeOK
  <1>6. ASSUME NEW a \in 1 .. N, NEW i \in 1 .. Len(Log'), Log'[i].tx = active_tx[a],
               \A k \in (i + 1) .. Len(Log') : Log'[k].tx # active_tx[a]
        PROVE  active_tx_lsn'[a] = Log'[i].lsn
    <2>1. CASE active_tx[a] = t
      <3>1. i = Len(Log) + 1 BY <1>5, <1>6, <2>1
      <3>2. QED BY <1>2, <1>5, <2>1, <3>1
    <2>2. CASE active_tx[a] # t
      <3>1. i \in 1 .. Len(Log) /\ Log'[i] = Log[i] BY <1>5, <1>6, <2>2
      <3>2. \A k \in (i + 1) .. Len(Log) : Log[k].tx # active_tx[a] BY <1>5, <1>6, <3>1
      <3>3. QED BY <1>2, <1>6, <2>2, <3>1, <3>2 DEF ActiveOK
    <2>3. QED BY <2>1, <2>2
  <1>7. QED BY <1>4, <1>6 DEF ActiveOK

LEMMA ActiveEnded ==
  ASSUME LogInv, NEW t, IsActive(t), NEW r \in Record, r.tx = t,
         Log' = Append(Log, r), TxEnds(t)
  PROVE  /\ ActiveTypes' /\ ActiveOK'
         /\ \A u : IsActive(u)' <=> IsActive(u) /\ u # t
  <1> USE DEF LogInv
  <1> DEFINE N == Len(active_tx)
  <1>1. PICK g \in 1 .. N : active_tx[g] = t /\ Min(ActiveIdx(t)) = g BY ActiveFacts
  <1>2. /\ N \in Nat /\ Len(active_tx_lsn) = N
        /\ \A a \in 1 .. N : active_tx_lsn[a] \in Nat /\ active_tx[a] \in Nat \ {0}
    BY LenProperties, ElementOfSeq DEF WalTypeOK
  <1> DEFINE at(i) == IF i < g THEN i ELSE i + 1
  <1>3. /\ active_tx' = [i \in 1 .. (N - 1) |-> IF i < g THEN active_tx[i] ELSE active_tx[i + 1]]
        /\ active_tx_lsn' =
             [i \in 1 .. (N - 1) |-> IF i < g THEN active_tx_lsn[i] ELSE active_tx_lsn[i + 1]]
        /\ next_tx_id' = next_tx_id
    BY <1>1, <1>2 DEF TxEnds, Without
  <1>4. N - 1 \in Nat BY <1>1, <1>2
  <1>5. \A i \in 1 .. (N - 1) : at(i) \in 1 .. N /\ at(i) # g BY <1>1, <1>2
  <1>6. \A i, j \in 1 .. (N - 1) : at(i) = at(j) => i = j BY <1>1, <1>2
  <1>7. \A i \in 1 .. (N - 1) : /\ active_tx'[i] = active_tx[at(i)]
                                /\ active_tx_lsn'[i] = active_tx_lsn[at(i)]
    BY <1>3
  <1>8. ASSUME NEW i \in 1 .. N, i # g PROVE \E j \in 1 .. (N - 1) : at(j) = i
    <2>1. CASE i < g
      <3>1. i \in 1 .. (N - 1) /\ at(i) = i BY <1>1, <1>2, <2>1
      <3>2. QED BY <3>1
    <2>2. CASE i > g
      <3>1. i - 1 \in 1 .. (N - 1) /\ at(i - 1) = i BY <1>1, <1>2, <2>2
      <3>2. QED BY <3>1
    <2>3. QED BY <1>1, <1>2, <1>8, <2>1, <2>2
  <1>9. active_tx' \in [1 .. (N - 1) -> Nat \ {0}] /\ active_tx_lsn' \in [1 .. (N - 1) -> Nat]
    BY <1>2, <1>3, <1>5, <1>7
  <1>10. /\ ActiveTypes' /\ Len(active_tx') = N - 1
    <2> DEFINE M == N - 1
    <2>1. M \in Nat BY <1>4
    <2>2. active_tx' \in [1 .. M -> Nat \ {0}] /\ active_tx_lsn' \in [1 .. M -> Nat] BY <1>9
    <2> HIDE DEF M
    <2>3. active_tx' \in Seq(Nat \ {0}) /\ Len(active_tx') = M BY <2>1, <2>2, SeqOf
    <2>4. active_tx_lsn' \in Seq(Nat) /\ Len(active_tx_lsn') = M BY <2>1, <2>2, SeqOf
    <2>5. QED BY <2>3, <2>4 DEF ActiveTypes, M
  <1> HIDE DEF at
  <1>11. \A a, b \in 1 .. N : active_tx[a] = active_tx[b] => a = b BY DEF ActiveOK
  <1>12. /\ Log \in Seq(Record) /\ Len(Log) \in Nat /\ Len(Log') = Len(Log) + 1
         /\ \A i \in 1 .. (Len(Log) + 1) : Log'[i] = IF i = Len(Log) + 1 THEN r ELSE Log[i]
    BY LogFacts, AppendFacts DEF WalTypeOK
  <1>13. ASSUME NEW a \in 1 .. (N - 1), NEW i \in 1 .. Len(Log'), Log'[i].tx = active_tx'[a],
                \A k \in (i + 1) .. Len(Log') : Log'[k].tx # active_tx'[a]
         PROVE  active_tx_lsn'[a] = Log'[i].lsn
    <2>1. active_tx'[a] = active_tx[at(a)] /\ active_tx[at(a)] # t /\ at(a) \in 1 .. N
      BY <1>1, <1>5, <1>7, <1>11
    <2>2. i \in 1 .. Len(Log) /\ Log'[i] = Log[i] BY <1>12, <1>13, <2>1
    <2>3. \A k \in (i + 1) .. Len(Log) : Log[k].tx # active_tx[at(a)]
      BY <1>12, <1>13, <2>1, <2>2
    <2>4. active_tx_lsn[at(a)] = Log[i].lsn BY <1>13, <2>1, <2>2, <2>3 DEF ActiveOK
    <2>5. QED BY <1>7, <2>2, <2>4
  <1>14. \A a \in 1 .. (N - 1) : active_tx'[a] < next_tx_id'
    BY <1>3, <1>5, <1>7 DEF ActiveOK
  <1>15. \A a, b \in 1 .. (N - 1) : active_tx'[a] = active_tx'[b] => a = b
    <2> SUFFICES ASSUME NEW a \in 1 .. (N - 1), NEW b \in 1 .. (N - 1),
                        active_tx'[a] = active_tx'[b]
                 PROVE  a = b
      OBVIOUS
    <2>1. at(a) \in 1 .. N /\ at(b) \in 1 .. N /\ active_tx[at(a)] = active_tx[at(b)]
      BY <1>5, <1>7
    <2>2. QED BY <1>6, <1>11, <2>1
  <1>16. ActiveOK' BY <1>10, <1>13, <1>14, <1>15 DEF ActiveOK
  <1>17. ASSUME NEW u PROVE IsActive(u)' <=> IsActive(u) /\ u # t
    <2>1. IsActive(u)' <=> \E a \in 1 .. (N - 1) : active_tx'[a] = u
      BY <1>10 DEF IsActive, ActiveIdx
    <2>2. IsActive(u) <=> \E a \in 1 .. N : active_tx[a] = u BY DEF IsActive, ActiveIdx
    <2>3. ASSUME NEW a \in 1 .. (N - 1), active_tx'[a] = u PROVE IsActive(u) /\ u # t
      <3>1. at(a) \in 1 .. N /\ active_tx[at(a)] = u /\ at(a) # g BY <1>5, <1>7, <2>3
      <3>2. QED BY <1>1, <1>11, <2>2, <3>1
    <2>4. ASSUME IsActive(u), u # t PROVE \E a \in 1 .. (N - 1) : active_tx'[a] = u
      <3>1. PICK b \in 1 .. N : active_tx[b] = u /\ b # g BY <1>1, <2>2, <2>4
      <3>2. PICK a \in 1 .. (N - 1) : at(a) = b BY <1>8, <3>1
      <3>3. QED BY <1>7, <3>1, <3>2
    <2>5. QED BY <2>1, <2>3, <2>4
  <1>18. QED BY <1>10, <1>16, <1>17

\* Records of no transaction leave the arrays as they are.
LEMMA ActiveAside ==
  ASSUME LogInv, NEW r \in Record, r.tx = 0, Log' = Append(Log, r), UNCHANGED txVars
  PROVE  ActiveTypes' /\ ActiveOK'
  <1> USE DEF LogInv, txVars
  <1>1. \A a \in 1 .. Len(active_tx) : active_tx[a] \in Nat \ {0}
    BY ElementOfSeq DEF WalTypeOK
  <1>2. /\ Log \in Seq(Record) /\ Len(Log) \in Nat /\ Len(Log') = Len(Log) + 1
        /\ \A i \in 1 .. (Len(Log) + 1) : Log'[i] = IF i = Len(Log) + 1 THEN r ELSE Log[i]
    BY LogFacts, AppendFacts DEF WalTypeOK
  <1>3. ASSUME NEW a \in 1 .. Len(active_tx), NEW i \in 1 .. Len(Log'),
               Log'[i].tx = active_tx[a],
               \A k \in (i + 1) .. Len(Log') : Log'[k].tx # active_tx[a]
        PROVE  active_tx_lsn[a] = Log'[i].lsn
    <2>1. i \in 1 .. Len(Log) /\ Log'[i] = Log[i] BY <1>1, <1>2, <1>3
    <2>2. \A k \in (i + 1) .. Len(Log) : Log[k].tx # active_tx[a] BY <1>2, <1>3, <2>1
    <2>3. QED BY <1>3, <2>1, <2>2 DEF ActiveOK
  <1>4. ActiveOK' BY <1>3 DEF ActiveOK
  <1>5. ActiveTypes' BY DEF ActiveTypes, WalTypeOK
  <1>6. QED BY <1>4, <1>5

\* wal_log_begin adds an id no record has.
LEMMA ActiveBegun ==
  ASSUME LogInv, up, NEW r \in Record, r.lsn = next_lsn, r.tx = next_tx_id,
         Log' = Append(Log, r), next_tx_id' = next_tx_id + 1,
         active_tx' = Append(active_tx, next_tx_id),
         active_tx_lsn' = Append(active_tx_lsn, next_lsn)
  PROVE  /\ ActiveTypes' /\ ActiveOK'
         /\ \A u : IsActive(u)' <=> IsActive(u) \/ u = next_tx_id
  <1> USE DEF LogInv
  <1> DEFINE N == Len(active_tx)
  <1>1. /\ N \in Nat /\ Len(active_tx_lsn) = N
        /\ \A a \in 1 .. N : active_tx_lsn[a] \in Nat /\ active_tx[a] \in Nat \ {0}
        /\ next_lsn \in Nat /\ next_tx_id \in Nat \ {0}
    BY LenProperties, ElementOfSeq DEF WalTypeOK
  <1>2. /\ active_tx' \in Seq(Nat \ {0}) /\ Len(active_tx') = N + 1
        /\ \A a \in 1 .. N : active_tx'[a] = active_tx[a]
        /\ active_tx'[N + 1] = next_tx_id
    BY <1>1, AppendProperties DEF WalTypeOK
  <1>3. /\ active_tx_lsn' \in Seq(Nat) /\ Len(active_tx_lsn') = N + 1
        /\ \A a \in 1 .. N : active_tx_lsn'[a] = active_tx_lsn[a]
        /\ active_tx_lsn'[N + 1] = next_lsn
    BY <1>1, AppendProperties DEF WalTypeOK
  <1>4. /\ Log \in Seq(Record) /\ Len(Log) \in Nat /\ Len(Log') = Len(Log) + 1
        /\ \A i \in 1 .. (Len(Log) + 1) : Log'[i] = IF i = Len(Log) + 1 THEN r ELSE Log[i]
    BY LogFacts, AppendFacts DEF WalTypeOK
  <1>5. \A i \in 1 .. Len(Log) : Log[i].tx # next_tx_id
    <2>1. \A i \in 1 .. Len(Log) : Log[i].tx \in Nat BY <1>4, ElementOfSeq, RecordFields
    <2>2. QED BY <1>1, <2>1 DEF Counters
  <1>6. \A a \in 1 .. N : active_tx[a] < next_tx_id BY DEF ActiveOK
  <1>7. ASSUME NEW a \in 1 .. (N + 1), NEW i \in 1 .. Len(Log'), Log'[i].tx = active_tx'[a],
               \A k \in (i + 1) .. Len(Log') : Log'[k].tx # active_tx'[a]
        PROVE  active_tx_lsn'[a] = Log'[i].lsn
    <2>1. CASE a = N + 1
      <3>1. i = Len(Log) + 1 BY <1>2, <1>4, <1>5, <1>7, <2>1
      <3>2. QED BY <1>3, <1>4, <2>1, <3>1
    <2>2. CASE a # N + 1
      <3>1. a \in 1 .. N BY <1>1, <2>2
      <3>2. active_tx[a] # next_tx_id BY <1>1, <1>6, <3>1
      <3>3. i \in 1 .. Len(Log) /\ Log'[i] = Log[i] BY <1>2, <1>4, <1>7, <3>1, <3>2
      <3>4. ASSUME NEW k \in (i + 1) .. Len(Log) PROVE Log[k].tx # active_tx[a]
        <4>1. k \in (i + 1) .. Len(Log') /\ Log'[k] = Log[k] BY <1>4, <3>3
        <4>2. active_tx'[a] = active_tx[a] BY <1>2, <3>1
        <4>3. Log'[k].tx # active_tx'[a] BY <1>7, <4>1
        <4>4. QED BY <4>1, <4>2, <4>3
      <3>5. active_tx_lsn[a] = Log[i].lsn BY <1>2, <1>7, <3>1, <3>3, <3>4 DEF ActiveOK
      <3>6. QED BY <1>3, <3>1, <3>3, <3>5
    <2>3. QED BY <2>1, <2>2
  <1>8. \A a \in 1 .. (N + 1) : active_tx'[a] < next_tx_id'
    BY <1>1, <1>2, <1>6
  <1>9. \A a, b \in 1 .. (N + 1) : active_tx'[a] = active_tx'[b] => a = b
    BY <1>1, <1>2, <1>6 DEF ActiveOK
  <1>10. ASSUME NEW u PROVE IsActive(u)' <=> IsActive(u) \/ u = next_tx_id
    <2>1. IsActive(u)' <=> \E a \in 1 .. (N + 1) : active_tx'[a] = u
      BY <1>2 DEF IsActive, ActiveIdx
    <2>2. IsActive(u) <=> \E a \in 1 .. N : active_tx[a] = u BY DEF IsActive, ActiveIdx
    <2>3. /\ N + 1 \in 1 .. (N + 1)
          /\ \A a \in 1 .. (N + 1) : a = N + 1 \/ a \in 1 .. N
          /\ \A a \in 1 .. N : a \in 1 .. (N + 1)
      BY <1>1
    <2>4. QED BY <1>2, <2>1, <2>2, <2>3
  <1>11. ActiveOK'
    <2> DEFINE M == N + 1
    <2>1. Len(active_tx') = M BY <1>2
    <2>2. /\ \A a \in 1 .. M : active_tx'[a] < next_tx_id'
          /\ \A a, b \in 1 .. M : active_tx'[a] = active_tx'[b] => a = b
          /\ \A a \in 1 .. M, i \in 1 .. Len(Log') :
               (/\ Log'[i].tx = active_tx'[a]
                /\ \A k \in (i + 1) .. Len(Log') : Log'[k].tx # active_tx'[a])
               => active_tx_lsn'[a] = Log'[i].lsn
      BY <1>7, <1>8, <1>9
    <2> HIDE DEF M
    <2>3. QED BY <2>1, <2>2 DEF ActiveOK
  <1>12. ActiveTypes' BY <1>2, <1>3 DEF ActiveTypes
  <1>13. QED BY <1>10, <1>11, <1>12

-----------------------------------------------------------------------------
(* Recovery: where it starts, and that it writes pages of the log.         *)

LEMMA NotTorn ==
  ASSUME NEW s, Numbered(s)
  PROVE  Readable(s) = s
  BY DEF Numbered, Readable, Torn

LEMMA StartFacts ==
  ASSUME NEW s \in Seq(Record)
  PROVE  /\ Start(s) \in Nat \ {0} /\ Len(s) \in Nat
         /\ \A k \in Checkpoints(s) : k <= Start(s)
         /\ Checkpoints(s) # {} => Start(s) \in Checkpoints(s)
         /\ Checkpoints(s) = {} => Start(s) = 1
  <1>1. Len(s) \in Nat BY LenProperties
  <1>2. Checkpoints(s) \subseteq Nat /\ \A k \in Checkpoints(s) : k <= Len(s) /\ k # 0
    BY <1>1 DEF Checkpoints
  <1>3. CASE Checkpoints(s) = {} BY <1>1, <1>3 DEF Start
  <1>4. CASE Checkpoints(s) # {}
    <2>1. /\ Max(Checkpoints(s)) \in Checkpoints(s)
          /\ \A k \in Checkpoints(s) : k <= Max(Checkpoints(s))
      BY <1>1, <1>2, <1>4, MaxFacts
    <2>2. QED BY <1>1, <1>2, <1>4, <2>1 DEF Start
  <1>5. QED BY <1>3, <1>4

LEMMA RedoType ==
  ASSUME NEW s \in Seq(Record), NEW d \in [Page -> Value], NEW n \in Nat, n <= Len(s)
  PROVE  redo_phase(d, s, n) \in [Page -> Value]
  <1> SUFFICES ASSUME NEW p \in Page, Winners(s, p, Start(s) .. n) # {}
               PROVE  s[Max(Winners(s, p, Start(s) .. n))].new \in Value
    BY DEF redo_phase
  <1> DEFINE W == Winners(s, p, Start(s) .. n)
  <1>1. W \subseteq 1 .. Len(s) /\ W \subseteq Nat /\ \A i \in W : i <= n
    BY StartFacts DEF Winners
  <1> HIDE DEF W
  <1>2. Max(W) \in W BY <1>1, MaxFacts DEF W
  <1>3. s[Max(W)] \in Record BY <1>1, <1>2, ElementOfSeq
  <1>4. QED BY <1>3, RecordFields DEF W

LEMMA UndoType ==
  ASSUME NEW s \in Seq(Record), NEW d \in [Page -> Value], NEW n \in Nat \ {0}
  PROVE  undo_phase(d, s, n) \in [Page -> Value]
  <1> SUFFICES ASSUME NEW p \in Page, Losers(s, p, n .. Len(s)) # {}
               PROVE  s[Min(Losers(s, p, n .. Len(s)))].old \in Value
    BY DEF undo_phase
  <1> DEFINE L == Losers(s, p, n .. Len(s))
  <1>1. L \subseteq 1 .. Len(s) /\ L \subseteq Nat BY LenProperties DEF Losers
  <1> HIDE DEF L
  <1>2. Min(L) \in L BY <1>1, MinFacts DEF L
  <1>3. s[Min(L)] \in Record BY <1>1, <1>2, ElementOfSeq
  <1>4. QED BY <1>3, RecordFields DEF L

LEMMA RecoveredType ==
  ASSUME NEW s \in Seq(Record), Numbered(s), NEW d \in [Page -> Value], UndoStops(s) = {}
  PROVE  Recovered(d, s) \in [Page -> Value]
  <1>1. Readable(s) = s BY NotTorn
  <1>2. UndoFrom(s) \in Nat \ {0} BY StartFacts DEF UndoFrom
  <1>3. redo_phase(d, s, Len(s)) \in [Page -> Value] BY LenProperties, RedoType
  <1>4. QED BY <1>1, <1>2, <1>3, UndoType DEF Recovered

LEMMA PartlyType ==
  ASSUME NEW s \in Seq(Record), Numbered(s), NEW d \in [Page -> Value],
         NEW n \in Start(s) .. Len(s), NEW e \in PartlyRecovered(d, s, n)
  PROVE  e \in [Page -> Value]
  <1>1. Readable(s) = s BY NotTorn
  <1>2. n \in Nat \ {0} /\ n <= Len(s) /\ Len(s) \in Nat BY StartFacts
  <1>3. redo_phase(d, s, Len(s)) \in [Page -> Value] BY <1>2, RedoType
  <1>4. undo_phase(redo_phase(d, s, Len(s)), s, n) \in [Page -> Value] BY <1>2, <1>3, UndoType
  <1>5. redo_phase(d, s, n) \in [Page -> Value] BY <1>2, RedoType
  <1>6. QED BY <1>1, <1>4, <1>5 DEF PartlyRecovered

-----------------------------------------------------------------------------
(* LogInv, operation by operation.                                         *)

DataTypes ==
  /\ pool \in [Page -> Value] /\ disk \in [Page -> Value]
  /\ page_lsn \in [Page -> Nat] /\ owner \in [Page -> Nat]
  /\ versions \in Seq([Page -> Value]) /\ versions # <<>>
  /\ crashes \in Nat

\* A record of the log's own making joins the log.
LEMMA JoinsLogInv ==
  ASSUME LogInv, up, up', NEW r \in Record, r.lsn = next_lsn, r.type # "torn", Joins(r),
         next_tx_id' \in Nat, next_tx_id <= next_tx_id', r.tx < next_tx_id',
         \A j \in 1 .. Len(Log) :
           (/\ Log[j].tx = r.tx /\ r.tx # 0
            /\ \A k \in (j + 1) .. Len(Log) : Log[k].tx # r.tx)
           => r.prev = Log[j].lsn,
         ActiveTypes', ActiveOK', DataTypes'
  PROVE  LogInv'
  <1>1. Numbered(Log') /\ Backlinked(Log') /\ Counters' BY JoinsOrder
  <1>2. /\ wal_file' \in Seq(Record) /\ buffer' \in Seq(Record)
        /\ next_lsn' = next_lsn + 1 /\ flushed_lsn' \in Nat /\ spilled' \in 0 .. Len(buffer')
    BY JoinsFacts
  <1>3. next_lsn' \in Nat \ {0} /\ next_tx_id' \in Nat \ {0}
    BY <1>2 DEF LogInv, WalTypeOK
  <1>4. WalTypeOK' BY <1>2, <1>3 DEF WalTypeOK, ActiveTypes, DataTypes
  <1>5. DownOK' BY DEF DownOK
  <1>6. QED BY <1>1, <1>4, <1>5 DEF LogInv

\* The log stays as it is, in file and buffer together.
LEMMA KeptLogInv ==
  ASSUME LogInv, Log' = Log, up' = up, WalTypeOK', DownOK',
         UNCHANGED <<next_lsn, active_tx, active_tx_lsn>>, next_tx_id <= next_tx_id',
         up => Len(buffer') <= BufferRecords /\ flushed_lsn' = next_lsn - 1 - Len(buffer')
  PROVE  LogInv'
  <1> USE DEF LogInv
  <1>1. Numbered(Log') /\ Backlinked(Log') OBVIOUS
  <1>2. /\ Log \in Seq(Record) /\ next_tx_id \in Nat /\ next_tx_id' \in Nat
        /\ \A i \in 1 .. Len(Log) : Log[i].tx \in Nat
        /\ \A a \in 1 .. Len(active_tx) : active_tx[a] \in Nat
    BY LogFacts, ElementOfSeq, RecordFields DEF WalTypeOK
  <1>3. Counters' BY <1>2 DEF Counters
  <1>4. ActiveOK' BY <1>2 DEF ActiveOK
  <1>5. QED BY <1>1, <1>3, <1>4

LEMMA FlushLogFacts ==
  ASSUME LogInv, wal_flush
  PROVE  /\ Log' = Log /\ wal_file' = Log /\ Len(buffer') = 0
         /\ LogInv'
  <1>1. /\ up /\ wal_file' = Log /\ buffer' = <<>> /\ spilled' = 0
        /\ flushed_lsn' = next_lsn - 1
        /\ UNCHANGED <<up, next_lsn, txVars, pool, page_lsn, disk, owner, historyVars>>
    BY HighestIs DEF wal_flush, Log
  <1>2. Log \in Seq(Record) BY LogFacts DEF LogInv, WalTypeOK
  <1>3. Log' = Log BY <1>1, <1>2, ConcatEmptySeq DEF Log
  <1>4. Len(buffer') = 0 /\ buffer' \in Seq(Record) BY <1>1
  <1>5. next_lsn - 1 \in Nat BY DEF LogInv, WalTypeOK
  <1>6. WalTypeOK'
    BY <1>1, <1>2, <1>4, <1>5 DEF LogInv, WalTypeOK, txVars, historyVars
  <1>7. next_tx_id \in Nat /\ next_lsn \in Nat BY DEF LogInv, WalTypeOK
  <1>8. DownOK' BY <1>1 DEF DownOK
  <1>9. Len(buffer') <= BufferRecords /\ flushed_lsn' = next_lsn - 1 - Len(buffer')
    BY <1>1, <1>4, <1>7, WalConstants
  <1>10. LogInv' BY <1>1, <1>3, <1>6, <1>7, <1>8, <1>9, KeptLogInv DEF txVars
  <1>11. QED BY <1>1, <1>3, <1>4, <1>10

\* Steps that leave file, buffer and arrays alone.
LEMMA AsideLogInv ==
  ASSUME LogInv, UNCHANGED <<up, wal_file, buffer, next_lsn, flushed_lsn, active_tx, active_tx_lsn>>,
         spilled' \in 0 .. Len(buffer), next_tx_id' \in Nat, next_tx_id <= next_tx_id',
         DataTypes', ~up => UNCHANGED <<owner, page_lsn>>
  PROVE  LogInv' /\ Log' = Log
  <1>1. Log' = Log BY DEF Log
  <1>2. next_tx_id' \in Nat \ {0} BY DEF LogInv, WalTypeOK
  <1>3. WalTypeOK' BY <1>2 DEF LogInv, WalTypeOK, DataTypes
  <1>4. DownOK' BY DEF LogInv, DownOK
  <1>5. up => Len(buffer') <= BufferRecords /\ flushed_lsn' = next_lsn - 1 - Len(buffer')
    BY DEF LogInv, Counters
  <1>6. QED BY <1>1, <1>3, <1>4, <1>5, KeptLogInv

LEMMA DataKept ==
  ASSUME LogInv
  PROVE  DataTypes /\ next_tx_id \in Nat /\ spilled \in 0 .. Len(buffer)
  BY DEF LogInv, WalTypeOK, DataTypes

LEMMA SpilledLogInv ==
  ASSUME LogInv, wal_flush_fail \/ wal_log_begin_fail
  PROVE  LogInv' /\ Log' = Log
  <1>1. next_tx_id \in Nat /\ spilled \in Nat /\ Len(buffer) \in Nat
    BY LenProperties DEF LogInv, WalTypeOK
  <1>2. /\ UNCHANGED <<up, wal_file, buffer, next_lsn, flushed_lsn, active_tx, active_tx_lsn,
                       pool, page_lsn, disk, owner, historyVars>>
        /\ next_tx_id' = next_tx_id \/ next_tx_id' = next_tx_id + 1
    BY DEF wal_flush_fail, wal_log_begin_fail, txVars
  <1>3. spilled' \in 0 .. Len(buffer) BY <1>1 DEF wal_flush_fail, wal_log_begin_fail
  <1>4. DataTypes' BY <1>2, DataKept DEF DataTypes, historyVars
  <1>5. QED BY <1>1, <1>2, <1>3, <1>4, AsideLogInv

LEMMA FlushFrameLogInv ==
  ASSUME LogInv, NEW p \in Page, flush_frame(p)
  PROVE  LogInv' /\ Log' = Log
  <1>1. DataTypes' BY DataKept DEF DataTypes, flush_frame, historyVars
  <1>2. QED BY <1>1, DataKept, AsideLogInv DEF flush_frame, logVars, txVars

LEMMA CrashInRecoveryLogInv ==
  ASSUME LogInv, CrashInRecovery
  PROVE  LogInv' /\ Log' = Log
  <1>1. ~up /\ wal_file \in Seq(Record) /\ Log = wal_file
    <2>1. ~up /\ buffer = <<>> /\ wal_file \in Seq(Record)
      BY DEF CrashInRecovery, LogInv, DownOK, WalTypeOK
    <2>2. QED BY <2>1, ConcatEmptySeq DEF Log
  <1>2. Numbered(wal_file) BY <1>1 DEF LogInv
  <1>3. Readable(wal_file) = wal_file BY <1>2, NotTorn
  <1>4. disk' \in [Page -> Value]
    <2>1. disk \in [Page -> Value] BY DEF LogInv, WalTypeOK
    <2>2. PICK n \in Start(wal_file) .. Len(wal_file) : disk' \in PartlyRecovered(disk, wal_file, n)
      BY <1>3 DEF CrashInRecovery
    <2>3. QED BY <1>1, <1>2, <2>1, <2>2, PartlyType
  <1>5. DataTypes' BY <1>4, DataKept DEF DataTypes, CrashInRecovery
  <1>6. QED BY <1>5, DataKept, AsideLogInv DEF CrashInRecovery, logVars, txVars

\* wal_log_begin.
BeginRec == [SimpleRec(next_tx_id, "begin") EXCEPT !.prev = LSN_NULL]

LEMMA BeginRecFacts ==
  ASSUME LogInv
  PROVE  /\ BeginRec \in Record /\ BeginRec.lsn = next_lsn /\ BeginRec.type = "begin"
         /\ BeginRec.tx = next_tx_id
  <1>1. next_lsn \in Nat /\ next_tx_id \in Nat BY DEF LogInv, WalTypeOK
  <1>2. BeginRec = [lsn |-> next_lsn, prev |-> 0, tx |-> next_tx_id, type |-> "begin",
                    page |-> NoPage, old |-> 0, new |-> 0]
    BY DEF BeginRec, SimpleRec, Rec, LSN_NULL
  <1>3. QED BY <1>1, <1>2, WalConstants DEF Record, Types

LEMMA BeginLogInv ==
  ASSUME LogInv, wal_log_begin
  PROVE  LogInv' /\ Joins(BeginRec) /\ \A u : IsActive(u)' <=> IsActive(u) \/ u = next_tx_id
  <1>1. /\ up /\ Joins(BeginRec) /\ next_tx_id' = next_tx_id + 1
        /\ active_tx' = Append(active_tx, next_tx_id)
        /\ active_tx_lsn' = Append(active_tx_lsn, next_lsn)
        /\ UNCHANGED <<up, pool, page_lsn, disk, owner, historyVars>>
    BY DEF wal_log_begin, Joins, BeginRec
  <1>2. /\ BeginRec \in Record /\ BeginRec.lsn = next_lsn /\ BeginRec.type = "begin"
        /\ BeginRec.tx = next_tx_id
    BY BeginRecFacts
  <1> HIDE DEF BeginRec
  <1>3. Log' = Append(Log, BeginRec) BY <1>1, <1>2, JoinsFacts
  <1>4. ActiveTypes' /\ ActiveOK' /\ \A u : IsActive(u)' <=> IsActive(u) \/ u = next_tx_id
    BY <1>1, <1>2, <1>3, ActiveBegun
  <1>5. next_tx_id \in Nat BY DEF LogInv, WalTypeOK
  <1>6. \A j \in 1 .. Len(Log) : Log[j].tx # BeginRec.tx
    <2>1. \A j \in 1 .. Len(Log) : Log[j].tx \in Nat /\ Log[j].tx < next_tx_id
      BY <1>1, LogFacts, ElementOfSeq, RecordFields DEF LogInv, WalTypeOK, Counters
    <2>2. QED BY <1>2, <1>5, <2>1
  <1>7. DataTypes' BY <1>1, DataKept DEF DataTypes, historyVars
  <1>8. LogInv' BY <1>1, <1>2, <1>4, <1>5, <1>6, <1>7, JoinsLogInv
  <1>9. QED BY <1>1, <1>4, <1>8

\* wal_log_update and wal_log_page.
LEMMA MovedLogInv ==
  ASSUME LogInv, up, NEW t, IsActive(t), NEW ty \in Types, ty # "torn",
         NEW p \in Page \cup {NoPage}, NEW a \in Value, NEW b \in Value,
         Joins(Rec(t, ty, p, a, b)), active_tx_lsn' = LsnMoved(t),
         UNCHANGED <<up, next_tx_id, active_tx>>, DataTypes'
  PROVE  LogInv'
  <1> DEFINE r == Rec(t, ty, p, a, b)
  <1>1. /\ r \in Record /\ r.lsn = next_lsn /\ r.type = ty /\ r.tx = t
        /\ t \in Nat /\ t < next_tx_id
        /\ \A j \in 1 .. Len(Log) :
             (/\ Log[j].tx = r.tx /\ r.tx # 0
              /\ \A k \in (j + 1) .. Len(Log) : Log[k].tx # r.tx)
             => r.prev = Log[j].lsn
    BY RecFacts
  <1>2. Joins(r) OBVIOUS
  <1> HIDE DEF r
  <1>3. Log' = Append(Log, r) BY <1>1, <1>2, JoinsFacts
  <1>4. ActiveTypes' /\ ActiveOK' BY <1>1, <1>3, ActiveMoved
  <1>5. next_tx_id \in Nat BY DataKept
  <1>6. QED BY <1>1, <1>2, <1>4, <1>5, JoinsLogInv

LEMMA UpdateLogInv ==
  ASSUME LogInv, NEW t, NEW p \in Page, NEW v \in Value, wal_log_update(t, p, v)
  PROVE  LogInv'
  <1>1. pool[p] \in Value /\ next_lsn \in Nat /\ t \in Nat
    BY ActiveFacts DEF LogInv, WalTypeOK, wal_log_update
  <1>2. DataTypes'
    BY <1>1, DataKept DEF DataTypes, wal_log_update, historyVars
  <1>3. Joins(Rec(t, "update", p, pool[p], v)) BY DEF wal_log_update, Joins
  <1>4. QED BY <1>1, <1>2, <1>3, MovedLogInv DEF wal_log_update, Types

LEMMA PageLogInv ==
  ASSUME LogInv, NEW t, wal_log_page(t)
  PROVE  LogInv'
  <1>1. DataTypes' BY DataKept DEF DataTypes, wal_log_page, historyVars
  <1>2. Joins(Rec(t, "alloc_free", NoPage, 0, 0)) BY DEF wal_log_page, Joins, SimpleRec
  <1>3. QED BY <1>1, <1>2, WalConstants, MovedLogInv DEF wal_log_page, Types

\* wal_log_commit, whether its flush succeeds or not, and wal_log_abort.
LEMMA EndedLogInv ==
  ASSUME LogInv, up, up' = up, NEW t, IsActive(t), NEW ty \in {"commit", "abort"},
         Joins(SimpleRec(t, ty)), TxEnds(t), DataTypes'
  PROVE  LogInv' /\ \A u : IsActive(u)' <=> IsActive(u) /\ u # t
  <1> DEFINE r == SimpleRec(t, ty)
  <1>1. /\ r \in Record /\ r.lsn = next_lsn /\ r.type = ty /\ r.tx = t
        /\ t \in Nat /\ t < next_tx_id
        /\ \A j \in 1 .. Len(Log) :
             (/\ Log[j].tx = r.tx /\ r.tx # 0
              /\ \A k \in (j + 1) .. Len(Log) : Log[k].tx # r.tx)
             => r.prev = Log[j].lsn
    <2>1. ty \in Types /\ ty # "torn" BY DEF Types
    <2>2. QED BY <2>1, SimpleRecFacts
  <1>2. Joins(r) OBVIOUS
  <1> HIDE DEF r
  <1>3. Log' = Append(Log, r) BY <1>1, <1>2, JoinsFacts
  <1>4. ActiveTypes' /\ ActiveOK' /\ \A u : IsActive(u)' <=> IsActive(u) /\ u # t
    BY <1>1, <1>3, ActiveEnded
  <1>5. next_tx_id \in Nat /\ next_tx_id' = next_tx_id BY DataKept DEF TxEnds
  <1>6. LogInv' BY <1>1, <1>2, <1>4, <1>5, JoinsLogInv
  <1>7. QED BY <1>4, <1>6

LEMMA LastVersionType ==
  ASSUME LogInv
  PROVE  /\ Len(versions) \in Nat \ {0} /\ versions[Len(versions)] \in [Page -> Value]
         /\ \A t : Overlay(t) \in [Page -> Value]
  <1>1. versions \in Seq([Page -> Value]) /\ versions # <<>> /\ pool \in [Page -> Value]
    BY DEF LogInv, WalTypeOK
  <1>2. Len(versions) \in Nat \ {0} BY <1>1, EmptySeq, LenProperties
  <1>3. versions[Len(versions)] \in [Page -> Value] BY <1>1, <1>2, ElementOfSeq
  <1>4. QED BY <1>1, <1>2, <1>3 DEF Overlay

LEMMA CommitLogInv ==
  ASSUME LogInv, NEW t, wal_log_commit(t) \/ wal_log_commit_fail(t)
  PROVE  LogInv' /\ Joins(SimpleRec(t, "commit"))
         /\ \A u : IsActive(u)' <=> IsActive(u) /\ u # t
  <1>1. up /\ IsActive(t) /\ Joins(SimpleRec(t, "commit")) /\ TxEnds(t)
        /\ UNCHANGED <<up, pool, page_lsn, disk, crashes>>
    BY DEF wal_log_commit, wal_log_commit_fail, Joins
  <1>2. versions' \in Seq([Page -> Value]) /\ versions' # <<>>
    <2>1. Overlay(t) \in [Page -> Value] /\ versions \in Seq([Page -> Value])
      BY LastVersionType DEF LogInv, WalTypeOK
    <2>2. versions' = <<Overlay(t)>> \/ versions' = Append(versions, Overlay(t))
      BY DEF wal_log_commit, wal_log_commit_fail
    <2>3. CASE versions' = <<Overlay(t)>> BY <2>1, <2>3
    <2>4. CASE versions' = Append(versions, Overlay(t)) BY <2>1, <2>4, AppendProperties
    <2>5. QED BY <2>2, <2>3, <2>4
  <1>3. DataTypes' BY <1>1, <1>2, DataKept DEF DataTypes, TxEnds
  <1>4. QED BY <1>1, <1>3, EndedLogInv

LEMMA AbortLogInv ==
  ASSUME LogInv, NEW t, wal_log_abort(t)
  PROVE  LogInv' /\ Joins(SimpleRec(t, "abort"))
         /\ \A u : IsActive(u)' <=> IsActive(u) /\ u # t
  <1>1. up /\ IsActive(t) /\ Joins(SimpleRec(t, "abort")) /\ TxEnds(t)
        /\ UNCHANGED <<up, page_lsn, disk, historyVars>>
    BY DEF wal_log_abort, Joins
  <1>2. pool' \in [Page -> Value]
    BY LastVersionType, DataKept DEF wal_log_abort, DataTypes
  <1>3. DataTypes' BY <1>1, <1>2, DataKept DEF DataTypes, TxEnds, historyVars
  <1>4. QED BY <1>1, <1>3, EndedLogInv

\* wal_checkpoint, with and without the ftruncate.
LEMMA CheckpointRecFacts ==
  ASSUME LogInv, up
  PROVE  /\ CheckpointRec \in Record /\ CheckpointRec.lsn = next_lsn
         /\ CheckpointRec.type = "checkpoint" /\ CheckpointRec.tx = 0
  <1>1. "checkpoint" \in Types /\ "checkpoint" # "torn" BY DEF Types
  <1>2. QED BY <1>1, SimpleRecFacts DEF CheckpointRec

LEMMA CheckpointKeepLogInv ==
  ASSUME LogInv, wal_checkpoint_keep \/ wal_checkpoint_fail
  PROVE  LogInv' /\ Joins(CheckpointRec) /\ UNCHANGED active_tx
  <1>1. /\ up /\ Joins(CheckpointRec) /\ UNCHANGED <<up, txVars, pool, owner, versions, crashes>>
        /\ FlushAll
    BY DEF wal_checkpoint_keep, wal_checkpoint_fail, Joins, FlushAll
  <1>2. /\ CheckpointRec \in Record /\ CheckpointRec.lsn = next_lsn
        /\ CheckpointRec.type = "checkpoint" /\ CheckpointRec.tx = 0
    BY <1>1, CheckpointRecFacts
  <1> HIDE DEF CheckpointRec
  <1>3. Log' = Append(Log, CheckpointRec) BY <1>1, <1>2, JoinsFacts
  <1>4. ActiveTypes' /\ ActiveOK' BY <1>1, <1>2, <1>3, ActiveAside
  <1>5. next_tx_id \in Nat \ {0} /\ next_tx_id' = next_tx_id /\ active_tx' = active_tx
    BY <1>1 DEF LogInv, WalTypeOK, txVars
  <1>6. DataTypes' BY <1>1, DataKept DEF DataTypes, FlushAll, Clean, historyVars
  <1>7. LogInv' BY <1>1, <1>2, <1>4, <1>5, <1>6, JoinsLogInv
  <1>8. QED BY <1>1, <1>5, <1>7

\* An empty log is in order.
LEMMA EmptyLog ==
  ASSUME NEW s, s = <<>>
  PROVE  s \in Seq(Record) /\ Len(s) = 0 /\ Numbered(s) /\ Backlinked(s)
  BY DEF Numbered, Backlinked

LEMMA CheckpointLogInv ==
  ASSUME LogInv, wal_checkpoint
  PROVE  LogInv' /\ Log' = <<>>
  <1>1. /\ up /\ UNCHANGED <<up, txVars, pool, owner, versions, crashes>> /\ FlushAll
        /\ wal_file' = <<>> /\ buffer' = <<>> /\ spilled' = 0 /\ next_lsn' = next_lsn + 1
    BY DEF wal_checkpoint, FlushAll
  <1>2. flushed_lsn' = next_lsn
    BY <1>1, CheckpointRecFacts, HighestIs DEF wal_checkpoint
  <1>3. Log' = <<>> BY <1>1 DEF Log
  <1>4. Len(Log') = 0 /\ Numbered(Log') /\ Backlinked(Log') BY <1>3, EmptyLog
  <1>5. next_lsn \in Nat \ {0} BY DEF LogInv, WalTypeOK
  <1>6. DataTypes' BY <1>1, DataKept DEF DataTypes, FlushAll, Clean, historyVars
  <1>7. WalTypeOK'
    <2>1. /\ wal_file' \in Seq(Record) /\ buffer' \in Seq(Record) /\ Len(buffer') = 0
      BY <1>1, EmptyLog
    <2>2. QED BY <1>1, <1>2, <1>5, <1>6, <2>1 DEF LogInv, WalTypeOK, DataTypes, txVars
  <1>8. Counters'
    <2>1. Len(buffer') = 0 BY <1>1
    <2>2. QED BY <1>1, <1>2, <1>4, <1>5, <2>1, WalConstants DEF Counters
  <1>9. ActiveOK' BY <1>1, <1>4 DEF LogInv, ActiveOK, txVars
  <1>10. DownOK' BY <1>1 DEF DownOK
  <1>11. QED BY <1>3, <1>4, <1>7, <1>8, <1>9, <1>10 DEF LogInv

\* The process ends, with n records in the log file.
LEMMA EndsLogInv ==
  ASSUME LogInv, NEW n \in 0 .. Len(Log), Ends(Prefix(n)), disk' \in [Page -> Value],
         crashes' \in Nat
  PROVE  LogInv' /\ Log' = Prefix(n) /\ wal_file' = Prefix(n) /\ Log \in Seq(Record)
  <1>1. Log \in Seq(Record) BY LogFacts DEF LogInv, WalTypeOK
  <1>2. Prefix(n) \in Seq(Record) BY <1>1, PrefixFacts DEF Prefix
  <1>3. /\ ~up' /\ wal_file' = Prefix(n) /\ buffer' = <<>> /\ spilled' = 0
        /\ active_tx' = <<>> /\ active_tx_lsn' = <<>>
        /\ next_lsn' = 1 /\ next_tx_id' = 1 /\ flushed_lsn' = 0
        /\ pool' = Clean /\ page_lsn' = Clean /\ owner' = Clean /\ versions' = versions
    BY DEF Ends, LSN_NULL
  <1>4. Log' = Prefix(n) BY <1>2, <1>3, ConcatEmptySeq DEF Log
  <1>5. Numbered(Log') /\ Backlinked(Log')
    BY <1>1, <1>4, OrderPrefix DEF LogInv, Prefix
  <1>6. DataTypes' BY <1>3, DataKept, WalConstants DEF DataTypes, Clean
  <1>7. /\ Len(active_tx') = 0 /\ Len(active_tx_lsn') = 0 /\ Len(buffer') = 0
        /\ active_tx' \in Seq(Nat \ {0}) /\ active_tx_lsn' \in Seq(Nat)
        /\ buffer' \in Seq(Record)
    BY <1>3
  <1>8. up' = FALSE BY DEF Ends
  <1>9. WalTypeOK'
    <2>1. up' \in BOOLEAN BY <1>8
    <2>2. /\ next_lsn' \in Nat \ {0} /\ next_tx_id' \in Nat \ {0} /\ flushed_lsn' \in Nat
          /\ spilled' \in 0 .. Len(buffer') /\ wal_file' \in Seq(Record)
      BY <1>2, <1>3, <1>7
    <2>3. QED BY <1>6, <1>7, <2>1, <2>2 DEF WalTypeOK, DataTypes
  <1>10. Counters' /\ ActiveOK' /\ DownOK' BY <1>3, <1>7, <1>8 DEF Counters, ActiveOK, DownOK
  <1>11. QED BY <1>1, <1>3, <1>4, <1>5, <1>9, <1>10 DEF LogInv

\* What is in the file when the process dies is a prefix of the log.
LEMMA CrashedFileIs ==
  ASSUME LogInv
  PROVE  /\ CrashedFile = Prefix(Len(wal_file) + spilled)
         /\ Len(wal_file) + spilled \in Len(wal_file) .. Len(Log)
         /\ Len(wal_file) \in Nat /\ Len(Log) \in Nat
         /\ Log = Prefix(Len(Log)) /\ Len(Log) \in Len(wal_file) .. Len(Log)
  <1> DEFINE W == Len(wal_file)
             n == W + spilled
             b == SubSeq(buffer, 1, spilled)
  <1>1. /\ wal_file \in Seq(Record) /\ buffer \in Seq(Record) /\ spilled \in 0 .. Len(buffer)
    BY DEF LogInv, WalTypeOK
  <1>2. /\ Log \in Seq(Record) /\ W \in Nat /\ Len(buffer) \in Nat
        /\ Len(Log) = W + Len(buffer)
        /\ \A i \in 1 .. W : Log[i] = wal_file[i]
        /\ \A i \in 1 .. Len(buffer) : Log[W + i] = buffer[i]
    BY <1>1, LogFacts
  <1>3. b \in Seq(Record) /\ Len(b) = spilled /\ \A i \in 1 .. spilled : b[i] = buffer[i]
    BY <1>1, PrefixFacts
  <1> HIDE DEF b
  <1>4. /\ wal_file \o b \in Seq(Record) /\ Len(wal_file \o b) = n
        /\ \A i \in 1 .. n : (wal_file \o b)[i] = IF i <= W THEN wal_file[i] ELSE b[i - W]
    BY <1>1, <1>3, ConcatProperties
  <1>5. n \in 0 .. Len(Log) /\ n \in W .. Len(Log) BY <1>1, <1>2
  <1>6. Prefix(n) \in Seq(Record) /\ Len(Prefix(n)) = n /\ \A i \in 1 .. n : Prefix(n)[i] = Log[i]
    BY <1>2, <1>5, PrefixFacts DEF Prefix
  <1>7. ASSUME NEW i \in 1 .. n PROVE (wal_file \o b)[i] = Prefix(n)[i]
    <2>1. CASE i <= W
      <3>1. i \in 1 .. W BY <1>2, <1>5, <2>1
      <3>2. (wal_file \o b)[i] = wal_file[i] BY <1>4, <1>7, <2>1
      <3>3. Prefix(n)[i] = Log[i] BY <1>6, <1>7
      <3>4. QED BY <1>2, <3>1, <3>2, <3>3
    <2>2. CASE i > W
      <3>1. i - W \in 1 .. spilled /\ i - W \in 1 .. Len(buffer) /\ W + (i - W) = i
        BY <1>1, <1>2, <2>2
      <3>2. b[i - W] = buffer[i - W] /\ Log[W + (i - W)] = buffer[i - W] BY <1>2, <1>3, <3>1
      <3>3. QED BY <1>2, <1>4, <1>6, <2>2, <3>1, <3>2
    <2>3. i <= W \/ i > W BY <1>1, <1>2
    <2>4. QED BY <2>1, <2>2, <2>3
  <1>8. wal_file \o b = Prefix(n) BY <1>4, <1>6, <1>7, SeqEqual
  <1>9. Log = Prefix(Len(Log)) BY <1>2, PrefixAll DEF Prefix
  <1>10. Len(Log) \in W .. Len(Log) BY <1>2
  <1>11. CrashedFile = Prefix(n) BY <1>8 DEF CrashedFile, b
  <1>12. QED BY <1>2, <1>5, <1>9, <1>10, <1>11

LEMMA DiesLogInv ==
  ASSUME LogInv, Crash
  PROVE  LET n == Len(wal_file) + spilled
         IN  LogInv' /\ Log' = Prefix(n) /\ wal_file' = Prefix(n) /\ Log \in Seq(Record)
  <1> DEFINE n == Len(wal_file) + spilled
  <1>1. n \in 0 .. Len(Log) /\ CrashedFile = Prefix(n) BY CrashedFileIs
  <1>2. Ends(Prefix(n)) /\ disk' \in [Page -> Value] /\ crashes' \in Nat
    BY <1>1, DataKept DEF Crash, Dies, DataTypes
  <1>3. QED BY <1>1, <1>2, EndsLogInv

LEMMA ShutdownLogInv ==
  ASSUME LogInv, wal_shutdown
  PROVE  LogInv' /\ Log' = Log /\ wal_file' = Log /\ Log \in Seq(Record)
  <1>1. Len(Log) \in 0 .. Len(Log) /\ Log = Prefix(Len(Log)) BY CrashedFileIs
  <1>2. Ends(Log) /\ disk' \in [Page -> Value] /\ crashes' \in Nat
    BY DataKept DEF wal_shutdown, DataTypes, Log
  <1>3. QED BY <1>1, <1>2, EndsLogInv

\* wal_recover sets the counters behind the last record and the highest id.
LEMMA RecoverLogInv ==
  ASSUME LogInv, wal_recover
  PROVE  /\ LogInv' /\ Log' = Log /\ wal_file = Log /\ wal_file \in Seq(Record)
         /\ Len(buffer) = 0
         /\ disk' = Recovered(disk, Log) /\ UndoStops(Log) = {}
  <1>1. ~up /\ buffer = <<>> /\ active_tx = <<>> /\ wal_file \in Seq(Record)
        /\ disk \in [Page -> Value]
    BY DEF wal_recover, LogInv, DownOK, WalTypeOK
  <1>2. Log = wal_file BY <1>1, ConcatEmptySeq DEF Log
  <1>3. Numbered(wal_file) /\ Readable(wal_file) = wal_file BY <1>2, NotTorn DEF LogInv
  <1> DEFINE s == wal_file
             N == Len(s)
             high == IF N = 0 THEN 0 ELSE s[N].lsn
  <1>4. N \in Nat /\ \A i \in 1 .. N : s[i].lsn \in Nat /\ s[i].tx \in Nat
    BY <1>1, LenProperties, ElementOfSeq, RecordFields
  <1>5. high \in Nat /\ \A i \in 1 .. N : s[i].lsn = high - (N - i)
    <2>1. CASE N = 0 BY <1>4, <2>1
    <2>2. CASE N # 0
      <3>1. N \in 1 .. N BY <1>4, <2>2
      <3>2. \A i \in 1 .. N : s[i].lsn - s[N].lsn = i - N BY <1>3, <3>1 DEF Numbered
      <3>3. QED BY <1>4, <2>2, <3>1, <3>2
    <2>3. QED BY <2>1, <2>2
  <1>6. HighestLsn(s, 0) = high
    <2> DEFINE S == {0} \cup {s[i].lsn : i \in 1 .. N}
    <2>1. S \subseteq Nat /\ \A x \in S : x <= high BY <1>4, <1>5
    <2>2. high \in S
      <3>1. CASE N = 0 BY <3>1
      <3>2. CASE N # 0
        <4>1. N \in 1 .. N BY <1>4, <3>2
        <4>2. QED BY <3>2, <4>1
      <3>3. QED BY <3>1, <3>2
    <2> HIDE DEF high
    <2>3. Max(S) = high BY <2>1, <2>2, MaxIs
    <2>4. QED BY <2>3 DEF HighestLsn
  <1>7. HighestTx(s) \in Nat /\ \A i \in 1 .. N : s[i].tx <= HighestTx(s)
    <2> DEFINE T == {0} \cup {s[i].tx : i \in 1 .. N}
               f == [i \in 1 .. N |-> s[i].tx]
    <2>1. T \subseteq Nat /\ T # {} BY <1>4
    <2>2. f \in [1 .. N -> Nat] BY <1>4
    <2>3. PICK b \in Nat : \A i \in 1 .. N : f[i] <= b BY <1>4, <2>2, ValuesBounded
    <2>4. \A x \in T : x <= b BY <2>3
    <2> HIDE DEF T
    <2>5. Max(T) \in T /\ \A x \in T : x <= Max(T) BY <2>1, <2>4, MaxFacts
    <2>6. QED BY <2>1, <2>5 DEF HighestTx, T
  <1>8. /\ next_lsn' = high + 1 /\ next_tx_id' = HighestTx(s) + 1 /\ flushed_lsn' = high
        /\ UndoStops(s) = {} /\ disk' = Recovered(disk, s) /\ pool' = disk'
        /\ versions' = <<disk'>> /\ up' = TRUE
        /\ UNCHANGED <<wal_file, buffer, spilled, active_tx, active_tx_lsn, page_lsn, owner,
                       crashes>>
    BY <1>3, <1>6 DEF wal_recover
  <1> HIDE DEF high
  <1>9. disk' \in [Page -> Value] BY <1>1, <1>3, <1>8, RecoveredType
  <1>10. versions' \in Seq([Page -> Value]) /\ versions' # <<>> BY <1>8, <1>9
  <1>11. WalTypeOK'
    <2>1. up' \in BOOLEAN BY <1>8
    <2>2. next_lsn' \in Nat \ {0} /\ next_tx_id' \in Nat \ {0} /\ flushed_lsn' \in Nat
      BY <1>5, <1>7, <1>8
    <2>3. QED BY <1>8, <1>9, <1>10, <2>1, <2>2 DEF LogInv, WalTypeOK
  <1>12. Log' = Log BY <1>8 DEF Log
  <1>13. Numbered(Log') /\ Backlinked(Log') BY <1>12 DEF LogInv
  <1>14. Len(buffer) = 0 /\ Len(active_tx) = 0 BY <1>1
  <1>15. Counters'
    <2>1. \A i \in 1 .. N : s[i].lsn = next_lsn' - 1 - (N - i) BY <1>4, <1>5, <1>8
    <2>2. \A i \in 1 .. N : s[i].tx < next_tx_id' BY <1>4, <1>7, <1>8
    <2>3. Len(buffer') <= BufferRecords /\ flushed_lsn' = next_lsn' - 1 - Len(buffer')
      BY <1>5, <1>8, <1>14, WalConstants
    <2>4. QED BY <1>2, <1>12, <2>1, <2>2, <2>3 DEF Counters
  <1>16. ActiveOK' /\ DownOK' BY <1>8, <1>14 DEF ActiveOK, DownOK
  <1>17. LogInv' BY <1>11, <1>13, <1>15, <1>16 DEF LogInv
  <1>18. QED BY <1>1, <1>2, <1>8, <1>12, <1>14, <1>17

LEMMA WalInitLogInv == WalInit => LogInv
  <1> SUFFICES ASSUME WalInit PROVE LogInv OBVIOUS
  <1>1. wal_file = <<>> /\ buffer = <<>> /\ active_tx = <<>> /\ active_tx_lsn = <<>>
    BY DEF WalInit
  <1>2. Log = <<>> BY <1>1 DEF Log
  <1>3. Len(Log) = 0 /\ Numbered(Log) /\ Backlinked(Log) BY <1>2, EmptyLog
  <1>4. /\ Len(buffer) = 0 /\ Len(active_tx) = 0 /\ Len(active_tx_lsn) = 0
        /\ wal_file \in Seq(Record) /\ buffer \in Seq(Record)
        /\ active_tx \in Seq(Nat \ {0}) /\ active_tx_lsn \in Seq(Nat)
    BY <1>1
  <1>5. Clean \in [Page -> Value] /\ Clean \in [Page -> Nat] BY WalConstants DEF Clean
  <1>6. DataTypes BY <1>5 DEF DataTypes, WalInit
  <1>7. WalTypeOK
    <2>1. up \in BOOLEAN BY DEF WalInit
    <2>2. QED BY <1>4, <1>6, <2>1 DEF WalTypeOK, DataTypes, WalInit, LSN_NULL
  <1>8. Counters
    <2>1. Len(buffer) <= BufferRecords BY <1>4, WalConstants
    <2>2. flushed_lsn = 0 /\ next_lsn = 1 BY DEF WalInit, LSN_NULL
    <2>3. flushed_lsn = next_lsn - 1 - Len(buffer) BY <1>4, <2>2
    <2>4. QED BY <1>3, <2>1, <2>3 DEF Counters
  <1>9. ActiveOK /\ DownOK BY <1>4 DEF ActiveOK, DownOK, WalInit
  <1>10. QED BY <1>3, <1>7, <1>8, <1>9 DEF LogInv

LEMMA WalNextLogInv == LogInv /\ [WalNext]_walVars => LogInv'
  <1> SUFFICES ASSUME LogInv, [WalNext]_walVars PROVE LogInv' OBVIOUS
  <1>1. CASE wal_flush BY <1>1, FlushLogFacts
  <1>2. CASE wal_flush_fail \/ wal_log_begin_fail BY <1>2, SpilledLogInv
  <1>3. CASE wal_log_begin BY <1>3, BeginLogInv
  <1>4. ASSUME NEW t \in 1 .. MaxTx,
               \/ \E p \in Page, v \in Value : wal_log_update(t, p, v)
               \/ wal_log_page(t)
               \/ wal_log_commit(t) \/ wal_log_commit_fail(t)
               \/ wal_log_abort(t)
        PROVE  LogInv'
    BY <1>4, UpdateLogInv, PageLogInv, CommitLogInv, AbortLogInv
  <1>5. ASSUME NEW p \in Page, flush_frame(p) PROVE LogInv' BY <1>5, FlushFrameLogInv
  <1>6. CASE wal_checkpoint BY <1>6, CheckpointLogInv
  <1>7. CASE wal_checkpoint_keep \/ wal_checkpoint_fail BY <1>7, CheckpointKeepLogInv
  <1>8. CASE wal_shutdown BY <1>8, ShutdownLogInv
  <1>9. CASE Crash BY <1>9, DiesLogInv
  <1>10. CASE CrashInRecovery BY <1>10, CrashInRecoveryLogInv
  <1>11. CASE wal_recover BY <1>11, RecoverLogInv
  <1>12. CASE UNCHANGED walVars
    <2>1. DataTypes' BY <1>12, DataKept DEF DataTypes, walVars, historyVars
    <2>2. QED BY <1>12, <2>1, DataKept, AsideLogInv DEF walVars, logVars, txVars
  <1>13. QED
    BY <1>1, <1>2, <1>3, <1>4, <1>5, <1>6, <1>7, <1>8, <1>9, <1>10, <1>11, <1>12 DEF WalNext

\* The records of the log are numbered and linked, whatever is flushed,
\* checkpointed, crashes and recovers, and whichever needs are not met.
THEOREM LogOrderTheorem == WalSpec => []LogOrder
  <1>1. LogInv => LogOrder
    <2> SUFFICES ASSUME LogInv, up PROVE LogOrder BY DEF LogOrder
    <2>1. /\ Log \in Seq(Record) /\ Len(Log) \in Nat
          /\ \A i \in 1 .. Len(Log) : Log[i] \in Record
      BY LogFacts, LenProperties, ElementOfSeq DEF LogInv, WalTypeOK
    <2> DEFINE earlier(i) == {j \in 1 .. (i - 1) : Log[j].tx = Log[i].tx}
    <2>2. ASSUME NEW i \in 1 .. Len(Log), earlier(i) # {}, Log[i].tx # 0
          PROVE  Log[i].prev = Log[Max(earlier(i))].lsn
      <3>1. earlier(i) \subseteq Nat /\ \A x \in earlier(i) : x <= i /\ x < i /\ x \in 1 .. Len(Log)
        BY <2>1
      <3>2. Max(earlier(i)) \in earlier(i) /\ \A x \in earlier(i) : x <= Max(earlier(i))
        <4> HIDE DEF earlier
        <4>1. i \in Nat BY <2>1
        <4>2. QED BY <2>2, <3>1, <4>1, MaxFacts
      <3>3. PICK j \in earlier(i) : j = Max(earlier(i)) BY <3>2
      <3>4. \A k \in (j + 1) .. (i - 1) : Log[k].tx # Log[i].tx
        <4> SUFFICES ASSUME NEW k \in (j + 1) .. (i - 1), Log[k].tx = Log[i].tx PROVE FALSE
          OBVIOUS
        <4>1. j \in 1 .. Len(Log) BY <3>1
        <4>2. k \in earlier(i) BY <4>1
        <4>3. k <= j BY <3>2, <3>3, <4>2
        <4>4. QED BY <4>1, <4>3
      <3>5. j \in 1 .. Len(Log) /\ j < i /\ Log[j].tx = Log[i].tx BY <3>1
      <3>6. Log[i].prev = Log[j].lsn BY <2>2, <3>4, <3>5 DEF LogInv, Backlinked
      <3>7. QED BY <3>3, <3>6
    <2>3. /\ \A i \in 1 .. Len(Log) : /\ Log[i].lsn = next_lsn - 1 - (Len(Log) - i)
                                      /\ Log[i].tx < next_tx_id
          /\ Len(buffer) <= BufferRecords /\ flushed_lsn = next_lsn - 1 - Len(buffer)
      BY DEF LogInv, Counters
    <2>4. QED BY <2>1, <2>2, <2>3 DEF LogOrder, Log
  <1>2. QED BY <1>1, WalInitLogInv, WalNextLogInv, PTL DEF WalSpec

-----------------------------------------------------------------------------
(* What recovery restores, from the relations between the records.         *)

LEMMA UpdatesFacts ==
  ASSUME NEW s \in Seq(Record), NEW p
  PROVE  /\ Updates(s, p) \subseteq Nat /\ Updates(s, p) \subseteq 1 .. Len(s)
         /\ Won(s, p) \subseteq Updates(s, p)
         /\ Updates(s, p) # {} =>
              /\ Min(Updates(s, p)) \in Updates(s, p)
              /\ \A i \in Updates(s, p) : Min(Updates(s, p)) <= i
              /\ Max(Updates(s, p)) \in Updates(s, p)
              /\ \A i \in Updates(s, p) : i <= Max(Updates(s, p))
         /\ Won(s, p) # {} =>
              Max(Won(s, p)) \in Won(s, p) /\ \A i \in Won(s, p) : i <= Max(Won(s, p))
  <1>1. Len(s) \in Nat BY LenProperties
  <1>2. Updates(s, p) \subseteq Nat /\ Updates(s, p) \subseteq 1 .. Len(s)
        /\ \A i \in Updates(s, p) : i <= Len(s)
    BY <1>1 DEF Updates
  <1>3. Won(s, p) \subseteq Updates(s, p) BY DEF Won
  <1>4. Won(s, p) \subseteq Nat /\ \A i \in Won(s, p) : i <= Len(s) BY <1>2, <1>3
  <1>5. QED BY <1>1, <1>2, <1>3, <1>4, MinFacts, MaxFacts

\* redo_phase and undo_phase together: the changes from the last checkpoint
\* on, winners forwards and losers backwards, give what the whole log says.
LEMMA RecoveryRestores ==
  ASSUME OldPages = Page, NEW s \in Seq(Record), Numbered(s), Tidy(s),
         NEW d \in [Page -> Value],
         \A p \in Page : Recent(s, p) = {} => d[p] = Restored(s, d, p)
  PROVE  UndoStops(s) = {} /\ \A p \in Page : Recovered(d, s)[p] = Restored(s, d, p)
  <1>1. UndoStops(s) = {} BY DEF UndoStops
  <1>2. UndoFrom(s) = Start(s) /\ Readable(s) = s BY <1>1, NotTorn DEF UndoFrom
  <1>3. SUFFICES ASSUME NEW p \in Page PROVE Recovered(d, s)[p] = Restored(s, d, p)
    BY <1>1
  <1> DEFINE U == Updates(s, p)
             I == Start(s) .. Len(s)
             W == Winners(s, p, I)
             L == Losers(s, p, I)
  <1>4. Recovered(d, s)[p] = IF L # {} THEN s[Min(L)].old
                             ELSE IF W # {} THEN s[Max(W)].new ELSE d[p]
    BY <1>2 DEF Recovered, undo_phase, redo_phase
  <1>5. /\ Len(s) \in Nat /\ Start(s) \in Nat \ {0}
        /\ \A k \in Checkpoints(s) : k <= Start(s)
        /\ Checkpoints(s) # {} => Start(s) \in Checkpoints(s)
        /\ Checkpoints(s) = {} => Start(s) = 1
    BY StartFacts
  <1>6. /\ U \subseteq Nat /\ U \subseteq 1 .. Len(s)
        /\ \A i \in U : s[i].type = "update" /\ s[i].page = p
        /\ \A i \in 1 .. Len(s) : s[i].type = "update" /\ s[i].page = p => i \in U
    BY UpdatesFacts DEF Updates
  <1>7. \A i \in U : i \in Recent(s, p) <=> i >= Start(s)
    <2> TAKE i \in U
    <2>1. i \in Recent(s, p) <=> \A k \in Checkpoints(s) : k < i
      BY <1>6 DEF Recent, Checkpoints
    <2>2. i \notin Checkpoints(s) BY <1>6 DEF Checkpoints
    <2>3. Checkpoints(s) \subseteq Nat BY DEF Checkpoints
    <2>4. CASE Checkpoints(s) = {} BY <1>5, <1>6, <2>1, <2>4
    <2>5. CASE Checkpoints(s) # {}
      <3>1. Start(s) \in Checkpoints(s) /\ i # Start(s) BY <1>5, <2>2, <2>5
      <3>2. QED BY <1>5, <1>6, <2>1, <2>3, <3>1
    <2>6. QED BY <2>4, <2>5
  <1>8. Recent(s, p) \subseteq U BY DEF Recent
  <1> HIDE DEF U
  <1>9. \A i : i \in I /\ s[i].type = "update" /\ s[i].page = p <=> i \in Recent(s, p)
    <2> SUFFICES ASSUME NEW i
                 PROVE  i \in I /\ s[i].type = "update" /\ s[i].page = p <=> i \in Recent(s, p)
      OBVIOUS
    <2>1. ASSUME i \in I, s[i].type = "update", s[i].page = p PROVE i \in Recent(s, p)
      <3>1. i \in 1 .. Len(s) /\ i >= Start(s) BY <1>5, <2>1
      <3>2. i \in U BY <2>1, <3>1 DEF U, Updates
      <3>3. QED BY <1>7, <3>1, <3>2
    <2>2. ASSUME i \in Recent(s, p) PROVE i \in I /\ s[i].type = "update" /\ s[i].page = p
      <3>1. i \in U /\ i >= Start(s) BY <1>7, <1>8, <2>2
      <3>2. i \in Nat /\ i <= Len(s) BY <1>5, <1>6, <3>1
      <3>3. QED BY <1>5, <1>6, <3>1, <3>2
    <2>3. QED BY <2>1, <2>2
  <1> HIDE DEF I
  <1>10. \A i : i \in W <=> i \in Recent(s, p) /\ Committed(s, s[i].tx)
    BY <1>9 DEF Winners
  <1>11. \A i : i \in L <=> i \in Recent(s, p) /\ ~Committed(s, s[i].tx)
    BY <1>9 DEF Losers
  <1>12. \A i : i \in Won(s, p) <=> i \in U /\ Committed(s, s[i].tx) BY DEF Won, U
  <1> HIDE DEF W, L
  <1>13. CASE L = {} /\ W = {}
    <2>1. Recent(s, p) = {} BY <1>10, <1>11, <1>13
    <2>2. QED BY <1>4, <1>13, <2>1
  <1>14. CASE L = {} /\ W # {}
    <2>1. W \subseteq Won(s, p) /\ W \subseteq Nat /\ \A i \in W : i <= Len(s)
      <3>1. \A i \in W : i \in U /\ i \in Won(s, p) BY <1>8, <1>10, <1>12
      <3>2. \A i \in U : i \in Nat /\ i <= Len(s) BY <1>5, <1>6
      <3>3. QED BY <3>1, <3>2
    <2>2. Max(W) \in W /\ \A i \in W : i <= Max(W) BY <1>5, <1>14, <2>1, MaxFacts
    <2>3. \A i \in Won(s, p) : i <= Max(W)
      <3> TAKE i \in Won(s, p)
      <3>1. CASE i \in Recent(s, p) BY <1>10, <1>12, <2>2, <3>1
      <3>2. CASE i \notin Recent(s, p)
        <4>1. i \in U /\ ~(i >= Start(s)) BY <1>7, <1>12, <3>2
        <4>2. Max(W) \in U /\ Max(W) >= Start(s) BY <1>7, <1>8, <1>10, <2>2
        <4>3. i \in Nat /\ Max(W) \in Nat BY <1>6, <4>1, <4>2
        <4>4. QED BY <1>5, <4>1, <4>2, <4>3
      <3>3. QED BY <3>1, <3>2
    <2>4. Won(s, p) \subseteq Nat BY <1>6, <1>12
    <2>5. Max(Won(s, p)) = Max(W) BY <2>1, <2>2, <2>3, <2>4, MaxIs
    <2>6. Won(s, p) # {} BY <2>1, <2>2
    <2>7. QED BY <1>4, <1>14, <2>5, <2>6 DEF Restored
  <1>15. CASE L # {}
    <2> DEFINE m == Min(L)
    <2>1. L \subseteq U /\ L \subseteq Nat BY <1>6, <1>8, <1>11
    <2>2. m \in L /\ \A i \in L : m <= i BY <1>15, <2>1, MinFacts
    <2> HIDE DEF m
    <2>3. m \in U /\ m \in Recent(s, p) /\ ~Committed(s, s[m].tx) BY <1>8, <1>11, <2>2
    <2>4. ASSUME NEW i \in Won(s, p) PROVE i < m
      <3> SUFFICES ASSUME ~(i < m) PROVE FALSE OBVIOUS
      <3>1. i \in U /\ s[i].tx # s[m].tx BY <1>12, <2>3
      <3>2. m < i BY <1>6, <2>3, <3>1
      <3>3. PICK k \in (m + 1) .. (i - 1) : s[k].type = "commit" /\ s[k].tx = s[m].tx
        BY <1>6, <2>3, <3>1, <3>2 DEF Tidy, Serial
      <3>4. k \in 1 .. Len(s) BY <1>5, <1>6, <2>3, <3>1
      <3>5. QED BY <2>3, <3>3, <3>4 DEF Committed
    <2>5. ASSUME NEW i \in U, i < m PROVE i \in Won(s, p)
      <3> SUFFICES ASSUME ~Committed(s, s[i].tx) PROVE FALSE BY <1>12
      <3>1. i \notin L BY <1>6, <2>1, <2>2, <2>3, <2>5
      <3>2. i \notin Recent(s, p) BY <1>11, <3>1
      <3>3. PICK c \in 1 .. Len(s) : s[c].type = "checkpoint" /\ ~(c < i)
        BY <3>2 DEF Recent, U
      <3>4. c # i /\ c < m BY <1>6, <2>3, <3>3 DEF Recent
      <3>5. i < c /\ i \in 1 .. Len(s) /\ m \in 1 .. Len(s)
        <4>1. i \in 1 .. Len(s) /\ m \in 1 .. Len(s) BY <1>6, <2>3
        <4>2. QED BY <1>5, <3>3, <3>4, <4>1
      <3>6. s[i].tx # s[m].tx BY <1>6, <3>3, <3>4, <3>5 DEF Tidy, Quiet
      <3>7. PICK k \in (i + 1) .. (m - 1) : s[k].type = "commit" /\ s[k].tx = s[i].tx
        BY <1>6, <2>3, <2>5, <3>6 DEF Tidy, Serial
      <3>8. k \in 1 .. Len(s) BY <1>5, <3>5
      <3>9. QED BY <3>7, <3>8 DEF Committed
    <2>6. Recovered(d, s)[p] = s[m].old BY <1>4, <1>15 DEF m
    <2>7. CASE Won(s, p) = {}
      <3>1. \A i \in U : m <= i
        <4> SUFFICES ASSUME NEW i \in U PROVE m <= i OBVIOUS
        <4>1. i \in Nat /\ m \in Nat BY <1>6, <2>3
        <4>2. ~(i < m) BY <2>5, <2>7
        <4>3. QED BY <4>1, <4>2
      <3>2. Min(U) = m BY <1>6, <2>3, <3>1, MinIs
      <3>3. U # {} BY <2>3
      <3>4. QED BY <2>6, <2>7, <3>2, <3>3 DEF Restored, Base, U
    <2>8. CASE Won(s, p) # {}
      <3> DEFINE w == Max(Won(s, p))
      <3>1. w \in Won(s, p) /\ \A i \in Won(s, p) : i <= w BY <2>8, UpdatesFacts
      <3> HIDE DEF w
      <3>2. w < m /\ w \in U BY <1>12, <2>4, <3>1
      <3>3. \A k \in (w + 1) .. (m - 1) : ~(s[k].type = "update" /\ s[k].page = p)
        <4> SUFFICES ASSUME NEW k \in (w + 1) .. (m - 1), s[k].type = "update", s[k].page = p
                     PROVE  FALSE
          OBVIOUS
        <4>1. w \in 1 .. Len(s) /\ m \in 1 .. Len(s) BY <1>6, <2>3, <3>2
        <4>2. k \in 1 .. Len(s) /\ k < m /\ w < k BY <1>5, <4>1
        <4>3. k \in U BY <4>2 DEF U, Updates
        <4>4. k \in Won(s, p) BY <2>5, <4>2, <4>3
        <4>5. QED BY <3>1, <4>1, <4>2, <4>4
      <3>4. s[m].old = s[w].new BY <1>6, <2>3, <3>2, <3>3 DEF Tidy, Chained
      <3>5. QED BY <2>6, <2>8, <3>4 DEF Restored, w
    <2>9. QED BY <2>7, <2>8
  <1>16. QED BY <1>13, <1>14, <1>15

\* What is restored does not depend on the database file for a page the log
\* changes.
LEMMA RestoredDisk ==
  ASSUME NEW s, NEW d, NEW e, NEW p, d[p] = e[p] \/ Updates(s, p) # {}
  PROVE  Restored(s, d, p) = Restored(s, e, p)
  BY DEF Restored, Base

LEMMA RestoredNone ==
  ASSUME NEW s, NEW d, NEW p, Updates(s, p) = {}
  PROVE  Restored(s, d, p) = d[p]
  BY DEF Restored, Base, Won

\* One more record.
LEMMA UpdatesAppend ==
  ASSUME NEW s \in Seq(Record), NEW r \in Record
  PROVE  /\ \A p, i : i \in Updates(Append(s, r), p) <=>
              i \in Updates(s, p) \/ (i = Len(s) + 1 /\ r.type = "update" /\ r.page = p)
         /\ \A p : ~(r.type = "update" /\ r.page = p) =>
              Updates(Append(s, r), p) = Updates(s, p)
         /\ \A t : Committed(Append(s, r), t) <=>
              Committed(s, t) \/ (r.type = "commit" /\ r.tx = t)
  <1> DEFINE q == Append(s, r)
  <1>1. /\ Len(s) \in Nat /\ Len(q) = Len(s) + 1
        /\ \A i \in 1 .. (Len(s) + 1) : q[i] = IF i = Len(s) + 1 THEN r ELSE s[i]
    BY AppendFacts
  <1> HIDE DEF q
  <1>2. /\ q[Len(s) + 1] = r /\ Len(s) + 1 \in 1 .. Len(q)
        /\ \A i \in 1 .. Len(s) : q[i] = s[i] /\ i \in 1 .. Len(q)
        /\ \A i \in 1 .. Len(q) : i \in 1 .. Len(s) \/ i = Len(s) + 1
    BY <1>1
  <1>3. \A p, i : i \in Updates(q, p) <=>
          i \in Updates(s, p) \/ (i = Len(s) + 1 /\ r.type = "update" /\ r.page = p)
    BY <1>2 DEF Updates
  <1>4. \A t : Committed(q, t) <=> Committed(s, t) \/ (r.type = "commit" /\ r.tx = t)
    BY <1>2 DEF Committed
  <1>5. ASSUME NEW p, ~(r.type = "update" /\ r.page = p) PROVE Updates(q, p) = Updates(s, p)
    <2>1. \A i : i \in Updates(q, p) <=> i \in Updates(s, p) BY <1>3, <1>5
    <2>2. QED BY <2>1
  <1>6. QED BY <1>3, <1>4, <1>5 DEF q

\* A record that commits no change of p and undoes no COMMIT leaves what is
\* restored of p.
LEMMA RestoredAppend ==
  ASSUME NEW s \in Seq(Record), NEW r \in Record, NEW d, NEW p,
         r.type = "update" => ~Committed(s, r.tx),
         r.type = "update" /\ r.page = p /\ Updates(s, p) = {} => r.old = d[p],
         r.type = "commit" => \A i \in Updates(s, p) : s[i].tx # r.tx
  PROVE  Restored(Append(s, r), d, p) = Restored(s, d, p)
  <1> DEFINE q == Append(s, r)
             N == Len(s)
  <1>1. /\ N \in Nat /\ q \in Seq(Record) /\ q[N + 1] = r
        /\ \A i \in 1 .. N : q[i] = s[i]
    BY AppendFacts
  <1>2. /\ \A i : i \in Updates(q, p) <=>
             i \in Updates(s, p) \/ (i = N + 1 /\ r.type = "update" /\ r.page = p)
        /\ \A t : Committed(q, t) <=> Committed(s, t) \/ (r.type = "commit" /\ r.tx = t)
    BY UpdatesAppend
  <1> HIDE DEF q
  <1>3. /\ Updates(s, p) \subseteq Nat /\ Updates(s, p) \subseteq 1 .. N
        /\ Updates(s, p) # {} => /\ Min(Updates(s, p)) \in Updates(s, p)
                                 /\ \A i \in Updates(s, p) : Min(Updates(s, p)) <= i
        /\ Won(s, p) # {} => Max(Won(s, p)) \in Won(s, p)
    BY UpdatesFacts
  <1>4. \A i \in Updates(s, p) : q[i] = s[i] BY <1>1, <1>3
  <1>5. Won(q, p) = Won(s, p)
    <2>1. \A i \in Updates(s, p) : Committed(q, q[i].tx) <=> Committed(s, s[i].tx)
      BY <1>2, <1>4
    <2>2. ASSUME r.type = "update" PROVE ~Committed(q, q[N + 1].tx) BY <1>1, <1>2, <2>2
    <2>3. QED BY <1>2, <2>1, <2>2 DEF Won
  <1>6. CASE ~(r.type = "update" /\ r.page = p)
    <2>1. Updates(q, p) = Updates(s, p) BY <1>2, <1>6
    <2>2. Restored(q, d, p) = Restored(s, d, p)
      BY <1>3, <1>4, <1>5, <2>1 DEF Restored, Base, Won
    <2>3. QED BY <2>2 DEF q
  <1>7. CASE r.type = "update" /\ r.page = p
    <2>1. CASE Won(s, p) # {}
      <3>1. Max(Won(s, p)) \in Updates(s, p) BY <1>3, <2>1 DEF Won
      <3>2. QED BY <1>4, <1>5, <2>1, <3>1 DEF Restored, q
    <2>2. CASE Won(s, p) = {} /\ Updates(s, p) = {}
      <3>1. Updates(q, p) = {N + 1} BY <1>2, <1>7, <2>2
      <3>2. Min({N + 1}) = N + 1 BY <1>1 DEF Min
      <3>3. QED BY <1>1, <1>5, <1>7, <2>2, <3>1, <3>2 DEF Restored, Base, q
    <2>3. CASE Won(s, p) = {} /\ Updates(s, p) # {}
      <3> DEFINE m == Min(Updates(s, p))
      <3>1. m \in Updates(s, p) /\ \A i \in Updates(s, p) : m <= i BY <1>3, <2>3
      <3> HIDE DEF m
      <3>2. m \in Nat /\ m <= N BY <1>1, <1>3, <3>1
      <3>3. m \in Updates(q, p) /\ \A i \in Updates(q, p) : m <= i
        BY <1>1, <1>2, <3>1, <3>2
      <3>4. Updates(q, p) \subseteq Nat BY <1>1, <1>2, <1>3
      <3>5. Min(Updates(q, p)) = m BY <3>3, <3>4, MinIs
      <3>6. QED BY <1>4, <1>5, <2>3, <3>1, <3>3, <3>5 DEF Restored, Base, q, m
    <2>4. QED BY <2>1, <2>2, <2>3
  <1>8. QED BY <1>6, <1>7

\* The COMMIT of the transaction that changed p last makes that change count.
LEMMA RestoredCommit ==
  ASSUME NEW s \in Seq(Record), NEW r \in Record, NEW d, NEW p, r.type = "commit",
         Updates(s, p) # {}, s[Max(Updates(s, p))].tx = r.tx
  PROVE  Restored(Append(s, r), d, p) = s[Max(Updates(s, p))].new
  <1> DEFINE q == Append(s, r)
             N == Len(s)
             m == Max(Updates(s, p))
  <1>1. /\ N \in Nat /\ q \in Seq(Record) /\ \A i \in 1 .. N : q[i] = s[i]
    BY AppendFacts
  <1>2. /\ Updates(q, p) = Updates(s, p) /\ Committed(q, r.tx)
    BY UpdatesAppend
  <1> HIDE DEF q
  <1>3. /\ Updates(s, p) \subseteq Nat /\ Updates(s, p) \subseteq 1 .. N
        /\ m \in Updates(s, p) /\ \A i \in Updates(s, p) : i <= m
    BY UpdatesFacts
  <1> HIDE DEF m
  <1>4. q[m] = s[m] BY <1>1, <1>3
  <1>5. m \in Won(q, p) /\ Won(q, p) \subseteq Nat /\ \A i \in Won(q, p) : i <= m
    BY <1>2, <1>3, <1>4 DEF Won, m
  <1>6. Max(Won(q, p)) = m BY <1>5, MaxIs
  <1>7. QED BY <1>4, <1>5, <1>6 DEF Restored, q, m

\* Which changes recovery looks at.
LEMMA RecentAppend ==
  ASSUME NEW s \in Seq(Record), NEW r \in Record, NEW p
  PROVE  (r.type # "checkpoint" /\ Recent(Append(s, r), p) = {}) =>
           Recent(s, p) = {} /\ ~(r.type = "update" /\ r.page = p)
  <1> SUFFICES ASSUME r.type # "checkpoint", Recent(Append(s, r), p) = {}
               PROVE  Recent(s, p) = {} /\ ~(r.type = "update" /\ r.page = p)
    OBVIOUS
  <1> DEFINE q == Append(s, r)
             N == Len(s)
  <1>1. /\ N \in Nat /\ Len(q) = N + 1
        /\ \A i \in 1 .. (N + 1) : q[i] = IF i = N + 1 THEN r ELSE s[i]
    BY AppendFacts
  <1>2. \A i : i \in Updates(q, p) <=>
          i \in Updates(s, p) \/ (i = N + 1 /\ r.type = "update" /\ r.page = p)
    BY UpdatesAppend
  <1>3. Recent(q, p) = {} OBVIOUS
  <1> HIDE DEF q
  <1>4. ASSUME NEW i \in Recent(s, p) PROVE FALSE
    <2>1. i \in Updates(q, p) BY <1>2 DEF Recent
    <2>2. PICK k \in 1 .. Len(q) : q[k].type = "checkpoint" /\ ~(k < i)
      BY <1>3, <2>1 DEF Recent
    <2>3. k \in 1 .. N /\ s[k].type = "checkpoint" BY <1>1, <2>2
    <2>4. QED BY <2>2, <2>3 DEF Recent
  <1>5. ASSUME r.type = "update", r.page = p PROVE FALSE
    <2>1. N + 1 \in Updates(q, p) BY <1>2, <1>5
    <2>2. PICK k \in 1 .. Len(q) : q[k].type = "checkpoint" /\ ~(k < N + 1)
      BY <1>3, <2>1 DEF Recent
    <2>3. k = N + 1 /\ q[k] = r BY <1>1, <2>2
    <2>4. QED BY <2>2, <2>3
  <1>6. QED BY <1>4, <1>5

LEMMA TidyPrefix ==
  ASSUME NEW s \in Seq(Record), NEW n \in 0 .. Len(s), Tidy(s)
  PROVE  Tidy(SubSeq(s, 1, n))
  <1> DEFINE q == SubSeq(s, 1, n)
  <1>1. Len(s) \in Nat /\ Len(q) = n /\ \A i \in 1 .. n : q[i] = s[i]
    BY PrefixFacts, LenProperties
  <1> HIDE DEF q
  <1>2. \A i \in 1 .. n : i \in 1 .. Len(s) /\ q[i] = s[i] BY <1>1
  <1>3. \A i, j \in 1 .. n : \A k \in (i + 1) .. (j - 1) : k \in 1 .. n BY <1>1
  <1>4. Serial(q)
    <2> SUFFICES ASSUME NEW i \in 1 .. n, NEW j \in 1 .. n, i < j,
                        s[i].type = "update", s[j].type = "update",
                        s[i].page = s[j].page, s[i].tx # s[j].tx
                 PROVE  \E k \in (i + 1) .. (j - 1) : q[k].type = "commit" /\ q[k].tx = q[i].tx
      BY <1>1, <1>2 DEF Serial
    <2>1. PICK k \in (i + 1) .. (j - 1) : s[k].type = "commit" /\ s[k].tx = s[i].tx
      BY <1>2 DEF Tidy, Serial
    <2>2. QED BY <1>2, <1>3, <2>1
  <1>5. Chained(q)
    <2> SUFFICES ASSUME NEW i \in 1 .. n, NEW j \in 1 .. n, i < j,
                        s[i].type = "update", s[j].type = "update", s[i].page = s[j].page,
                        \A k \in (i + 1) .. (j - 1) : ~(q[k].type = "update" /\ q[k].page = q[i].page)
                 PROVE  s[j].old = s[i].new
      BY <1>1, <1>2 DEF Chained
    <2>1. \A k \in (i + 1) .. (j - 1) : ~(s[k].type = "update" /\ s[k].page = s[i].page)
      BY <1>2, <1>3
    <2>2. QED BY <1>2, <2>1 DEF Tidy, Chained
  <1>6. Quiet(q)
    <2> SUFFICES ASSUME NEW i \in 1 .. n, NEW k \in 1 .. n, NEW j \in 1 .. n, i < k, k < j,
                        s[i].type = "update", s[k].type = "checkpoint"
                 PROVE  s[i].tx # s[j].tx
      BY <1>1, <1>2 DEF Quiet
    <2>1. QED BY <1>2 DEF Tidy, Quiet
  <1>7. CommitLast(q)
    <2> SUFFICES ASSUME NEW i \in 1 .. n, NEW k \in 1 .. n,
                        s[i].type = "update", s[k].type = "commit", s[i].tx = s[k].tx
                 PROVE  i < k
      BY <1>1, <1>2 DEF CommitLast
    <2>1. QED BY <1>2 DEF Tidy, CommitLast
  <1>8. QED BY <1>4, <1>5, <1>6, <1>7 DEF Tidy, q

\* A change starts from the last one of its page, which is committed unless
\* it is the transaction's own; a record after a checkpoint is not of a
\* transaction that changed a page before it.
LEMMA TidyAppend ==
  ASSUME NEW s \in Seq(Record), NEW r \in Record, Tidy(s),
         \A i, k \in 1 .. Len(s) :
           i < k /\ s[i].type = "update" /\ s[k].type = "checkpoint" => s[i].tx # r.tx,
         r.type = "update" =>
           /\ ~Committed(s, r.tx)
           /\ \A i \in Updates(s, r.page) : s[i].tx # r.tx => Committed(s, s[i].tx)
           /\ Updates(s, r.page) # {} => r.old = s[Max(Updates(s, r.page))].new
  PROVE  Tidy(Append(s, r))
  <1> DEFINE q == Append(s, r)
             N == Len(s)
  <1>1. /\ N \in Nat /\ Len(q) = N + 1
        /\ \A i \in 1 .. (N + 1) : q[i] = IF i = N + 1 THEN r ELSE s[i]
    BY AppendFacts
  <1> HIDE DEF q
  <1>2. /\ q[N + 1] = r /\ \A i \in 1 .. N : q[i] = s[i]
        /\ \A i \in 1 .. Len(q) : i \in 1 .. N \/ i = N + 1
    BY <1>1
  <1>3. Serial(q)
    <2> SUFFICES ASSUME NEW i \in 1 .. Len(q), NEW j \in 1 .. Len(q), i < j,
                        q[i].type = "update", q[j].type = "update",
                        q[i].page = q[j].page, q[i].tx # q[j].tx
                 PROVE  \E k \in (i + 1) .. (j - 1) : q[k].type = "commit" /\ q[k].tx = q[i].tx
      BY DEF Serial
    <2>1. i \in 1 .. N /\ q[i] = s[i] BY <1>1
    <2>2. CASE j \in 1 .. N
      <3>1. q[j] = s[j] BY <1>2, <2>2
      <3>2. PICK k \in (i + 1) .. (j - 1) : s[k].type = "commit" /\ s[k].tx = s[i].tx
        BY <2>1, <2>2, <3>1 DEF Tidy, Serial
      <3>3. k \in 1 .. N BY <1>1, <2>1, <2>2
      <3>4. QED BY <1>2, <2>1, <3>2, <3>3
    <2>3. CASE j = N + 1
      <3>1. q[j] = r BY <1>2, <2>3
      <3>2. i \in Updates(s, r.page) BY <2>1, <3>1 DEF Updates
      <3>3. Committed(s, s[i].tx) BY <2>1, <3>1, <3>2
      <3>4. PICK k \in 1 .. N : s[k].type = "commit" /\ s[k].tx = s[i].tx
        BY <3>3 DEF Committed
      <3>5. i < k BY <2>1, <3>4 DEF Tidy, CommitLast
      <3>6. k \in (i + 1) .. (j - 1) BY <1>1, <2>1, <2>3, <3>5
      <3>7. QED BY <1>2, <2>1, <3>4, <3>6
    <2>4. QED BY <1>2, <2>2, <2>3
  <1>4. Chained(q)
    <2> SUFFICES ASSUME NEW i \in 1 .. Len(q), NEW j \in 1 .. Len(q), i < j,
                        q[i].type = "update", q[j].type = "update", q[i].page = q[j].page,
                        \A k \in (i + 1) .. (j - 1) : ~(q[k].type = "update" /\ q[k].page = q[i].page)
                 PROVE  q[j].old = q[i].new
      BY DEF Chained
    <2>1. i \in 1 .. N /\ q[i] = s[i] BY <1>1
    <2>2. CASE j \in 1 .. N
      <3>1. q[j] = s[j] BY <1>2, <2>2
      <3>2. \A k \in (i + 1) .. (j - 1) : k \in 1 .. N BY <1>1, <2>1, <2>2
      <3>3. \A k \in (i + 1) .. (j - 1) : ~(s[k].type = "update" /\ s[k].page = s[i].page)
        BY <1>2, <2>1, <3>2
      <3>4. QED BY <2>1, <2>2, <3>1, <3>3 DEF Tidy, Chained
    <2>3. CASE j = N + 1
      <3>1. q[j] = r BY <1>2, <2>3
      <3>2. i \in Updates(s, r.page) BY <2>1, <3>1 DEF Updates
      <3>3. \A k \in Updates(s, r.page) : k <= i
        <4> SUFFICES ASSUME NEW k \in Updates(s, r.page), ~(k <= i) PROVE FALSE OBVIOUS
        <4>1. k \in 1 .. N /\ s[k].type = "update" /\ s[k].page = r.page BY DEF Updates
        <4>2. k \in (i + 1) .. (j - 1) BY <1>1, <2>1, <2>3, <4>1
        <4>3. QED BY <1>2, <2>1, <3>1, <4>1, <4>2
      <3>4. Updates(s, r.page) \subseteq Nat BY UpdatesFacts
      <3>5. Max(Updates(s, r.page)) = i BY <3>2, <3>3, <3>4, MaxIs
      <3>6. QED BY <2>1, <3>1, <3>2, <3>5
    <2>4. QED BY <1>2, <2>2, <2>3
  <1>5. Quiet(q)
    <2> SUFFICES ASSUME NEW i \in 1 .. Len(q), NEW k \in 1 .. Len(q), NEW j \in 1 .. Len(q),
                        i < k, k < j, q[i].type = "update", q[k].type = "checkpoint"
                 PROVE  q[i].tx # q[j].tx
      BY DEF Quiet
    <2>1. i \in 1 .. N /\ k \in 1 .. N /\ q[i] = s[i] /\ q[k] = s[k] BY <1>1
    <2>2. CASE j \in 1 .. N BY <1>2, <2>1, <2>2 DEF Tidy, Quiet
    <2>3. CASE j = N + 1 BY <1>2, <2>1, <2>3
    <2>4. QED BY <1>2, <2>2, <2>3
  <1>6. CommitLast(q)
    <2> SUFFICES ASSUME NEW i \in 1 .. Len(q), NEW k \in 1 .. Len(q),
                        q[i].type = "update", q[k].type = "commit", q[i].tx = q[k].tx
                 PROVE  i < k
      BY DEF CommitLast
    <2>1. CASE k = N + 1
      <3>1. i # N + 1 BY <1>2, <2>1
      <3>2. QED BY <1>1, <2>1, <3>1
    <2>2. CASE k \in 1 .. N /\ i \in 1 .. N BY <1>2, <2>2 DEF Tidy, CommitLast
    <2>3. CASE k \in 1 .. N /\ i = N + 1
      <3>1. Committed(s, r.tx) BY <1>2, <2>3 DEF Committed
      <3>2. QED BY <1>2, <2>3, <3>1
    <2>4. QED BY <1>2, <2>1, <2>2, <2>3
  <1>7. QED BY <1>3, <1>4, <1>5, <1>6 DEF Tidy, q

\* One more record, with x records in the file.
LEMMA SaysAppend ==
  ASSUME NEW s \in Seq(Record), NEW r \in Record, NEW w \in 0 .. Len(s),
         NEW x \in w .. (Len(s) + 1), NEW d, NEW vs, DiskSays(s, w, d), VersionsSay(s, w, d, vs),
         \A p \in Page : Recent(Append(s, r), p) = {} => d[p] = Restored(Append(s, r), d, p)
  PROVE  /\ DiskSays(Append(s, r), x, d)
         /\ \A us : (/\ \E k \in 1 .. Len(us) :
                          \A p \in Page : us[k][p] = Restored(Append(s, r), d, p)
                     /\ x = Len(s) + 1 \/ \A k \in 1 .. Len(vs) : \E l \in 1 .. Len(us) : us[l] = vs[k])
                    => VersionsSay(Append(s, r), x, d, us)
  <1> DEFINE q == Append(s, r)
             N == Len(s)
  <1>1. N \in Nat /\ Len(q) = N + 1 /\ q \in Seq(Record) BY AppendFacts
  <1>2. \A n \in 0 .. N : SubSeq(q, 1, n) = SubSeq(s, 1, n) BY PrefixAppend
  <1>3. SubSeq(q, 1, N + 1) = q BY <1>1, PrefixAll
  <1> HIDE DEF q
  <1>4. DiskSays(q, x, d)
    <2> SUFFICES ASSUME NEW n \in x .. Len(q), NEW p \in Page, Recent(SubSeq(q, 1, n), p) = {}
                 PROVE  d[p] = Restored(SubSeq(q, 1, n), d, p)
      BY DEF DiskSays
    <2>1. CASE n = N + 1 BY <1>3, <2>1 DEF q
    <2>2. CASE n # N + 1
      <3>1. n \in w .. N /\ n \in 0 .. N BY <1>1, <2>2
      <3>2. QED BY <1>2, <3>1 DEF DiskSays
    <2>3. QED BY <2>1, <2>2
  <1>5. ASSUME NEW us, \E k \in 1 .. Len(us) : \A p \in Page : us[k][p] = Restored(q, d, p),
               x = N + 1 \/ \A k \in 1 .. Len(vs) : \E l \in 1 .. Len(us) : us[l] = vs[k]
        PROVE  VersionsSay(q, x, d, us)
    <2> SUFFICES ASSUME NEW n \in x .. Len(q)
                 PROVE  \E k \in 1 .. Len(us) : \A p \in Page : us[k][p] = Restored(SubSeq(q, 1, n), d, p)
      BY DEF VersionsSay
    <2>1. CASE n = N + 1 BY <1>3, <1>5, <2>1
    <2>2. CASE n # N + 1
      <3>1. n \in w .. N /\ n \in 0 .. N /\ x # N + 1 BY <1>1, <2>2
      <3>2. PICK k \in 1 .. Len(vs) : \A p \in Page : vs[k][p] = Restored(SubSeq(s, 1, n), d, p)
        BY <3>1 DEF VersionsSay
      <3>3. PICK l \in 1 .. Len(us) : us[l] = vs[k] BY <1>5, <3>1
      <3>4. QED BY <1>2, <3>1, <3>2, <3>3
    <2>3. QED BY <2>1, <2>2
  <1>6. QED BY <1>4, <1>5 DEF q

-----------------------------------------------------------------------------
(* Pages written back to the database file.                                *)

LEMMA LogTypes ==
  ASSUME LogInv
  PROVE  /\ Log \in Seq(Record) /\ Len(Log) \in Nat /\ Len(wal_file) \in Nat
         /\ Len(wal_file) \in 0 .. Len(Log) /\ Len(buffer) \in Nat
         /\ Len(Log) = Len(wal_file) + Len(buffer)
         /\ \A i \in 1 .. Len(Log) : Log[i] \in Record /\ Log[i].lsn \in Nat /\ Log[i].tx \in Nat
  <1>1. /\ Log \in Seq(Record) /\ Len(wal_file) \in Nat /\ Len(buffer) \in Nat
        /\ Len(Log) = Len(wal_file) + Len(buffer)
    BY LogFacts DEF LogInv, WalTypeOK
  <1>2. \A i \in 1 .. Len(Log) : Log[i] \in Record BY <1>1, ElementOfSeq
  <1>3. QED BY <1>1, <1>2, RecordFields

\* What "log_first" gives: the changes of a page that may be written back are
\* in the log file.
LEMMA LoggedClean ==
  ASSUME WalInv, up, NEW p \in Page, Logged(p)
  PROVE  \A i \in Updates(Log, p) : i <= Len(wal_file)
  <1> SUFFICES ASSUME NEW i \in Updates(Log, p), ~(i <= Len(wal_file)) PROVE FALSE OBVIOUS
  <1>1. LogInv BY DEF WalInv
  <1>2. /\ Len(wal_file) \in Nat /\ Len(buffer) \in Nat
        /\ Len(Log) = Len(wal_file) + Len(buffer) /\ i \in 1 .. Len(Log)
    BY <1>1, LogTypes DEF Updates
  <1>3. Log[i].lsn <= page_lsn[p] BY <1>2 DEF WalInv, DirtyOK
  <1>4. page_lsn[p] <= flushed_lsn BY DEF Logged
  <1>5. /\ flushed_lsn = next_lsn - 1 - Len(buffer)
        /\ Log[i].lsn = next_lsn - 1 - (Len(Log) - i)
    BY <1>1, <1>2 DEF LogInv, Counters
  <1>6. next_lsn \in Nat /\ page_lsn[p] \in Nat BY <1>1 DEF LogInv, WalTypeOK
  <1>7. QED BY <1>2, <1>3, <1>4, <1>5, <1>6

\* A page whose changes are all in the first n records may be written back:
\* n records restore the same, and the page is restored as it is in the pool
\* unless recovery looks at it.
LEMMA WriteBack ==
  ASSUME WalInv, up, NEW p \in Page, NEW n \in 0 .. Len(Log),
         \A i \in Updates(Log, p) : i <= n
  PROVE  /\ Restored(Prefix(n), pool, p) = Restored(Prefix(n), disk, p)
         /\ Recent(Prefix(n), p) = {} => pool[p] = Restored(Prefix(n), pool, p)
  <1> DEFINE q == Prefix(n)
  <1>1. LogInv BY DEF WalInv
  <1>2. /\ Log \in Seq(Record) /\ Len(Log) \in Nat BY <1>1, LogTypes
  <1>3. q \in Seq(Record) /\ Len(q) = n /\ \A i \in 1 .. n : q[i] = Log[i] /\ i \in 1 .. Len(Log)
    BY <1>2, PrefixFacts DEF Prefix
  <1> HIDE DEF q
  <1>4. Updates(q, p) = Updates(Log, p)
    <2>1. \A i : i \in Updates(q, p) <=> i \in Updates(Log, p)
      <3>1. \A i \in Updates(Log, p) : i \in 1 .. n BY <1>2 DEF Updates
      <3>2. QED BY <1>3, <3>1 DEF Updates
    <2>2. QED BY <2>1
  <1>5. CASE Updates(Log, p) = {}
    <2>1. owner[p] = 0 BY <1>5 DEF WalInv, PoolOK
    <2>2. pool[p] = Restored(Log, disk, p) BY <2>1 DEF WalInv, PoolOK
    <2>3. pool[p] = disk[p] BY <1>5, <2>2, RestoredNone
    <2>4. Restored(q, pool, p) = pool[p] /\ Restored(q, disk, p) = disk[p]
      BY <1>4, <1>5, RestoredNone
    <2>5. QED BY <2>3, <2>4 DEF q
  <1>6. CASE Updates(Log, p) # {}
    <2>1. Restored(q, pool, p) = Restored(q, disk, p) BY <1>4, <1>6, RestoredDisk
    <2>2. ASSUME Recent(q, p) = {} PROVE pool[p] = Restored(q, pool, p)
      <3>1. \A i \in Updates(Log, p) : \E k \in 1 .. n : Log[k].type = "checkpoint" /\ ~(k < i)
        BY <1>3, <1>4, <2>2 DEF Recent
      <3>2. /\ Max(Updates(Log, p)) \in Updates(Log, p) /\ Min(Updates(Log, p)) \in Updates(Log, p)
            /\ Updates(Log, p) \subseteq 1 .. Len(Log)
            /\ Won(Log, p) # {} => Max(Won(Log, p)) \in Won(Log, p)
        BY <1>2, <1>6, UpdatesFacts
      <3>3. owner[p] = 0
        <4> SUFFICES ASSUME owner[p] # 0 PROVE FALSE OBVIOUS
        <4> DEFINE m == Max(Updates(Log, p))
        <4>1. m \in Updates(Log, p) /\ m \in 1 .. Len(Log) BY <3>2
        <4>2. IsActive(owner[p]) /\ Log[m].tx = owner[p] BY DEF WalInv, PoolOK
        <4> HIDE DEF m
        <4>3. Log[m].type = "update" BY <4>1 DEF Updates
        <4>4. \A k \in m .. Len(Log) : Log[k].type # "checkpoint"
          BY <4>1, <4>2, <4>3 DEF WalInv, OpenOK
        <4>5. PICK k \in 1 .. n : Log[k].type = "checkpoint" /\ ~(k < m) BY <3>1, <4>1
        <4>6. k \in m .. Len(Log) BY <1>2, <4>1, <4>5
        <4>7. QED BY <4>4, <4>5, <4>6
      <3>4. pool[p] = Restored(Log, disk, p) BY <3>3 DEF WalInv, PoolOK
      <3>5. \A i \in Updates(Log, p) : q[i] = Log[i]
        <4>1. \A i \in Updates(q, p) : i \in 1 .. n BY <1>3 DEF Updates
        <4>2. QED BY <1>3, <1>4, <4>1
      <3>6. \A i \in Updates(Log, p) : Committed(q, Log[i].tx) <=> Committed(Log, Log[i].tx)
        <4> TAKE i \in Updates(Log, p)
        <4>1. Committed(q, Log[i].tx) => Committed(Log, Log[i].tx) BY <1>3 DEF Committed
        <4>2. ASSUME Committed(Log, Log[i].tx) PROVE Committed(q, Log[i].tx)
          <5>1. PICK k \in 1 .. Len(Log) : Log[k].type = "commit" /\ Log[k].tx = Log[i].tx
            BY <4>2 DEF Committed
          <5>2. PICK c \in 1 .. n : Log[c].type = "checkpoint" /\ ~(c < i) BY <3>1
          <5>3. i \in 1 .. Len(Log) /\ Log[i].type = "update" /\ c \in 1 .. Len(Log)
            BY <1>3 DEF Updates
          <5>4. i < c BY <5>2, <5>3
          <5>5. ~(c < k) BY <5>1, <5>2, <5>3, <5>4 DEF WalInv, Tidy, Quiet
          <5>6. k \in 1 .. n BY <5>1, <5>3, <5>5
          <5>7. QED BY <1>3, <5>1, <5>6 DEF Committed
        <4>3. QED BY <4>1, <4>2
      <3>7. Won(q, p) = Won(Log, p)
        <4>1. \A i : i \in Won(q, p) <=> i \in Won(Log, p) BY <1>4, <3>5, <3>6 DEF Won
        <4>2. QED BY <4>1
      <3>8. Restored(q, disk, p) = Restored(Log, disk, p)
        <4>1. Won(Log, p) # {} => Max(Won(Log, p)) \in Updates(Log, p) BY <3>2 DEF Won
        <4>2. QED BY <1>4, <1>6, <3>2, <3>5, <3>7, <4>1 DEF Restored, Base
      <3>9. QED BY <2>1, <3>4, <3>8
    <2>3. QED BY <2>1, <2>2 DEF q
  <1>7. QED BY <1>5, <1>6

\* The database file after pages were written back log first.
LEMMA WrittenBack ==
  ASSUME WalInv, NEW d, \A p \in Page : d[p] = disk[p] \/ (up /\ Logged(p) /\ d[p] = pool[p])
  PROVE  /\ DiskSays(Log, Len(wal_file), d) /\ VersionsSay(Log, Len(wal_file), d, versions)
         /\ \A p \in Page : Restored(Log, d, p) = Restored(Log, disk, p)
  <1>1. LogInv /\ Len(wal_file) \in Nat /\ Len(Log) \in Nat /\ Len(wal_file) <= Len(Log)
    BY LogTypes DEF WalInv
  <1>2. ASSUME NEW n \in Len(wal_file) .. Len(Log), NEW p \in Page
        PROVE  /\ Restored(Prefix(n), d, p) = Restored(Prefix(n), disk, p)
               /\ Recent(Prefix(n), p) = {} => d[p] = Restored(Prefix(n), d, p)
    <2>1. CASE d[p] = disk[p]
      <3>1. Restored(Prefix(n), d, p) = Restored(Prefix(n), disk, p) BY <2>1, RestoredDisk
      <3>2. Recent(Prefix(n), p) = {} => disk[p] = Restored(Prefix(n), disk, p)
        BY DEF WalInv, DiskOK, DiskSays, Prefix
      <3>3. QED BY <2>1, <3>1, <3>2
    <2>2. CASE up /\ Logged(p) /\ d[p] = pool[p]
      <3>1. \A i \in Updates(Log, p) : i <= Len(wal_file) BY <2>2, LoggedClean
      <3>2. n \in 0 .. Len(Log) /\ \A i \in Updates(Log, p) : i <= n
        <4>1. Updates(Log, p) \subseteq Nat BY <1>1, LogTypes, UpdatesFacts
        <4>2. QED BY <1>1, <3>1, <4>1
      <3>3. /\ Restored(Prefix(n), pool, p) = Restored(Prefix(n), disk, p)
            /\ Recent(Prefix(n), p) = {} => pool[p] = Restored(Prefix(n), pool, p)
        BY <2>2, <3>2, WriteBack
      <3>4. Restored(Prefix(n), d, p) = Restored(Prefix(n), pool, p) BY <2>2, RestoredDisk
      <3>5. QED BY <2>2, <3>3, <3>4
    <2>3. QED BY <2>1, <2>2
  <1>3. DiskSays(Log, Len(wal_file), d) BY <1>2 DEF DiskSays, Prefix
  <1>4. VersionsSay(Log, Len(wal_file), d, versions)
    <2> SUFFICES ASSUME NEW n \in Len(wal_file) .. Len(Log)
                 PROVE  \E k \in 1 .. Len(versions) :
                          \A p \in Page : versions[k][p] = Restored(SubSeq(Log, 1, n), d, p)
      BY DEF VersionsSay
    <2>1. PICK k \in 1 .. Len(versions) :
                 \A p \in Page : versions[k][p] = Restored(SubSeq(Log, 1, n), disk, p)
      BY DEF WalInv, VersionsOK, VersionsSay
    <2>2. QED BY <1>2, <2>1 DEF Prefix
  <1>5. \A p \in Page : Restored(Log, d, p) = Restored(Log, disk, p)
    <2>1. Log = Prefix(Len(Log)) /\ Len(Log) \in Len(wal_file) .. Len(Log)
      BY <1>1, CrashedFileIs
    <2>2. QED BY <1>2, <2>1
  <1>6. QED BY <1>3, <1>4, <1>5

-----------------------------------------------------------------------------
(* WalInv, operation by operation.  First the ones that leave the log as   *)
(* it is: more of it may be in the file, pages may be written back.        *)

LEMMA KeptInv ==
  ASSUME WalInv, LogInv', Log' = Log, up' = up, UNCHANGED <<active_tx, owner, pool, versions>>,
         Len(wal_file') \in Len(wal_file) .. Len(Log),
         \A p \in Page : \/ disk'[p] = disk[p] /\ page_lsn'[p] = page_lsn[p]
                         \/ up /\ Logged(p) /\ disk'[p] = pool[p]
  PROVE  WalInv'
  <1> USE DEF WalInv
  <1>1. LogInv /\ Len(wal_file) \in Nat /\ Len(Log) \in Nat BY LogTypes
  <1>2. /\ DiskSays(Log, Len(wal_file), disk') /\ VersionsSay(Log, Len(wal_file), disk', versions)
        /\ \A p \in Page : Restored(Log, disk', p) = Restored(Log, disk, p)
    BY WrittenBack
  <1>3. \A n \in Len(wal_file') .. Len(Log) : n \in Len(wal_file) .. Len(Log) BY <1>1
  <1>4. DiskOK' BY <1>2, <1>3 DEF DiskOK, DiskSays
  <1>5. VersionsOK'
    <2>1. VersionsSay(Log, Len(wal_file'), disk', versions) BY <1>2, <1>3 DEF VersionsSay
    <2>2. LastSays' BY <1>2 DEF VersionsOK, LastSays
    <2>3. QED BY <2>1, <2>2 DEF VersionsOK
  <1>6. OpenOK' BY DEF OpenOK, IsActive, ActiveIdx
  <1>7. PoolOK' BY <1>2 DEF PoolOK, IsActive, ActiveIdx
  <1>8. DirtyOK'
    <2> SUFFICES ASSUME NEW p \in Page, NEW i \in Updates(Log, p), i > Len(wal_file')
                 PROVE  Log[i].lsn <= page_lsn'[p]
      BY DEF DirtyOK
    <2>1. i \in Nat /\ i > Len(wal_file)
      <3>1. i \in 1 .. Len(Log) BY DEF Updates
      <3>2. QED BY <1>1, <3>1
    <2>2. ~(up /\ Logged(p))
      <3>1. ~(i <= Len(wal_file)) BY <1>1, <2>1
      <3>2. QED BY <3>1, LoggedClean
    <2>3. page_lsn'[p] = page_lsn[p] BY <2>2
    <2>4. QED BY <2>1, <2>3 DEF DirtyOK
  <1>9. Tidy(Log') OBVIOUS
  <1>10. QED BY <1>4, <1>5, <1>6, <1>7, <1>8, <1>9

LEMMA FlushInv ==
  ASSUME WalInv, kept' = Needs,
         wal_flush \/ wal_flush_fail \/ wal_log_begin_fail \/ (\E p \in Page : flush_frame(p))
           \/ UNCHANGED walVars
  PROVE  WalInv'
  <1>1. LogInv /\ Len(wal_file) \in Nat /\ Len(Log) \in Nat /\ Len(wal_file) <= Len(Log)
    BY LogTypes DEF WalInv
  <1>2. CASE wal_flush
    <2>1. Log' = Log /\ wal_file' = Log /\ LogInv' BY <1>1, <1>2, FlushLogFacts
    <2>2. Len(wal_file') \in Len(wal_file) .. Len(Log) BY <1>1, <2>1
    <2>3. /\ up' = up /\ UNCHANGED <<active_tx, owner, pool, versions>>
          /\ disk' = disk /\ page_lsn' = page_lsn
      BY <1>2 DEF wal_flush, txVars, historyVars
    <2>4. QED BY <2>1, <2>2, <2>3, KeptInv
  <1>3. CASE wal_flush_fail \/ wal_log_begin_fail
    <2>1. Log' = Log /\ LogInv' BY <1>1, <1>3, SpilledLogInv
    <2>2. /\ up' = up /\ UNCHANGED <<active_tx, owner, pool, versions>>
          /\ disk' = disk /\ page_lsn' = page_lsn /\ wal_file' = wal_file
      BY <1>3 DEF wal_flush_fail, wal_log_begin_fail, txVars, historyVars
    <2>3. Len(wal_file') \in Len(wal_file) .. Len(Log) BY <1>1, <2>2
    <2>4. QED BY <2>1, <2>2, <2>3, KeptInv
  <1>4. ASSUME NEW p \in Page, flush_frame(p) PROVE WalInv'
    <2>1. Log' = Log /\ LogInv' BY <1>1, <1>4, FlushFrameLogInv
    <2>2. /\ up /\ up' = up /\ UNCHANGED <<active_tx, owner, pool, versions>>
          /\ disk' = [disk EXCEPT ![p] = pool[p]] /\ page_lsn' = [page_lsn EXCEPT ![p] = 0]
          /\ wal_file' = wal_file
      BY <1>4 DEF flush_frame, logVars, txVars, historyVars
    <2>3. Logged(p) BY <1>4 DEF flush_frame, KeepsNeed, Needs
    <2>4. Len(wal_file') \in Len(wal_file) .. Len(Log) BY <1>1, <2>2
    <2>5. ASSUME NEW q \in Page
          PROVE  \/ disk'[q] = disk[q] /\ page_lsn'[q] = page_lsn[q]
                 \/ up /\ Logged(q) /\ disk'[q] = pool[q]
      <3>1. disk \in [Page -> Value] /\ page_lsn \in [Page -> Nat] BY <1>1 DEF LogInv, WalTypeOK
      <3>2. QED BY <2>2, <2>3, <3>1
    <2>6. QED BY <2>1, <2>2, <2>4, <2>5, KeptInv
  <1>5. CASE UNCHANGED walVars
    <2>1. LogInv' BY <1>1, <1>5, WalNextLogInv
    <2>2. /\ up' = up /\ UNCHANGED <<active_tx, owner, pool, versions>>
          /\ disk' = disk /\ page_lsn' = page_lsn /\ wal_file' = wal_file /\ buffer' = buffer
      BY <1>5 DEF walVars, logVars, txVars, historyVars
    <2>3. Len(wal_file') \in Len(wal_file) .. Len(Log) /\ Log' = Log BY <1>1, <2>2 DEF Log
    <2>4. QED BY <2>1, <2>2, <2>3, KeptInv
  <1>6. QED BY <1>2, <1>3, <1>4, <1>5

\* A record joins the log, with the database file d.
LEMMA JoinsTidy ==
  ASSUME WalInv, up, NEW r \in Record, r.type # "update",
         IsActive(r.tx) \/ r.tx = next_tx_id \/ r.tx = 0
  PROVE  Tidy(Append(Log, r))
  <1>1. LogInv BY DEF WalInv
  <1>2. /\ Log \in Seq(Record) /\ Len(Log) \in Nat
        /\ \A i \in 1 .. Len(Log) : Log[i].tx \in Nat
    BY <1>1, LogTypes
  <1>3. ASSUME NEW i \in 1 .. Len(Log), NEW k \in 1 .. Len(Log), i < k,
               Log[i].type = "update", Log[k].type = "checkpoint", Log[i].tx = r.tx
        PROVE  FALSE
    <2>1. k \in i .. Len(Log) BY <1>2, <1>3
    <2>2. ~IsActive(Log[i].tx) BY <1>3, <2>1 DEF WalInv, OpenOK
    <2>3. Log[i].tx # 0 BY <1>3 DEF WalInv, OpenOK
    <2>4. Log[i].tx < next_tx_id /\ next_tx_id \in Nat
      BY <1>1 DEF LogInv, Counters, WalTypeOK
    <2>5. QED BY <1>2, <1>3, <2>2, <2>3, <2>4
  <1>4. Tidy(Log) BY DEF WalInv
  <1>5. QED BY <1>2, <1>3, <1>4, TidyAppend

\* The log against the transactions after a record r joined and those in act
\* are active.
LEMMA JoinsOpen ==
  ASSUME WalInv, NEW r \in Record, Log' = Append(Log, r),
         NEW act, \A u : IsActive(u)' <=> u \in act,
         r.type \in {"update", "commit"} =>
           /\ r.tx # 0 /\ (r.type = "update" => r.page \in Page)
           /\ r.tx \in act => r.type = "update" /\ owner'[r.page] = r.tx,
         \A i \in 1 .. Len(Log) :
           /\ Log[i].type \in {"update", "commit"} /\ Log[i].tx \in act
           => /\ IsActive(Log[i].tx) /\ r.type # "checkpoint"
              /\ owner[Log[i].page] = Log[i].tx => owner'[Log[i].page] = Log[i].tx
  PROVE  OpenOK'
  <1> DEFINE N == Len(Log)
             q == Append(Log, r)
  <1>1. /\ Log \in Seq(Record) /\ N \in Nat BY LogTypes DEF WalInv
  <1>2. /\ Len(q) = N + 1 /\ \A i \in 1 .. (N + 1) : q[i] = IF i = N + 1 THEN r ELSE Log[i]
    BY <1>1, AppendFacts
  <1>3. Log' = q OBVIOUS
  <1> HIDE DEF q
  <1>4. ASSUME NEW i \in 1 .. Len(q), q[i].type \in {"update", "commit"}
        PROVE  /\ q[i].tx # 0 /\ (q[i].type = "update" => q[i].page \in Page)
               /\ q[i].tx \in act =>
                    /\ q[i].type = "update" /\ owner'[q[i].page] = q[i].tx
                    /\ \A k \in i .. Len(q) : q[k].type # "checkpoint"
    <2>1. CASE i = N + 1
      <3>1. q[i] = r /\ \A k \in i .. Len(q) : q[k] = r BY <1>1, <1>2, <2>1
      <3>2. QED BY <1>4, <3>1
    <2>2. CASE i # N + 1
      <3>1. i \in 1 .. N /\ q[i] = Log[i] BY <1>1, <1>2, <2>2
      <3>2. Log[i].tx # 0 /\ (Log[i].type = "update" => Log[i].page \in Page)
        BY <1>4, <3>1 DEF WalInv, OpenOK
      <3>3. ASSUME Log[i].tx \in act
            PROVE  /\ Log[i].type = "update" /\ owner'[Log[i].page] = Log[i].tx
                   /\ \A k \in i .. Len(q) : q[k].type # "checkpoint"
        <4>1. IsActive(Log[i].tx) /\ r.type # "checkpoint" BY <1>4, <3>1, <3>3
        <4>2. /\ Log[i].type = "update" /\ owner[Log[i].page] = Log[i].tx
              /\ \A k \in i .. N : Log[k].type # "checkpoint"
          BY <1>4, <3>1, <4>1 DEF WalInv, OpenOK
        <4>3. \A k \in i .. Len(q) : k \in 1 .. (N + 1) /\ (k = N + 1 \/ k \in i .. N)
          BY <1>1, <1>2, <3>1
        <4>4. \A k \in i .. Len(q) : q[k].type # "checkpoint" BY <1>2, <4>1, <4>2, <4>3
        <4>5. QED BY <1>4, <3>1, <3>3, <4>2, <4>4
      <3>4. QED BY <3>1, <3>2, <3>3
    <2>3. QED BY <2>1, <2>2
  <1>5. \A i \in 1 .. Len(Log') : IsActive(Log[i].tx)' <=> q[i].tx \in act BY <1>3
  <1>6. QED BY <1>3, <1>4, <1>5 DEF OpenOK

\* The pages as the clients see them after a record r joined.
LEMMA JoinsPool ==
  ASSUME WalInv, up, NEW r \in Record, Log' = Append(Log, r),
         NEW act, \A u : IsActive(u)' <=> u \in act,
         \A p \in Page :
           \/ owner'[p] = 0 /\ pool'[p] = Restored(Append(Log, r), disk', p)
           \/ /\ owner'[p] # 0 /\ owner'[p] = owner[p] /\ pool'[p] = pool[p]
              /\ owner[p] \in act /\ ~(r.type = "update" /\ r.page = p)
           \/ /\ owner'[p] # 0 /\ owner'[p] = r.tx /\ pool'[p] = r.new
              /\ r.tx \in act /\ r.type = "update" /\ r.page = p
  PROVE  PoolOK'
  <1> DEFINE N == Len(Log)
             q == Append(Log, r)
  <1>1. /\ Log \in Seq(Record) /\ N \in Nat BY LogTypes DEF WalInv
  <1>2. q \in Seq(Record) /\ q[N + 1] = r /\ \A i \in 1 .. N : q[i] = Log[i]
    BY <1>1, AppendFacts
  <1>3. \A p, i : i \in Updates(q, p) <=>
          i \in Updates(Log, p) \/ (i = N + 1 /\ r.type = "update" /\ r.page = p)
    BY <1>1, UpdatesAppend
  <1>4. Log' = q OBVIOUS
  <1> HIDE DEF q
  <1>5. ASSUME NEW p \in Page, owner'[p] # 0
        PROVE  /\ owner'[p] \in act /\ Updates(q, p) # {}
               /\ q[Max(Updates(q, p))].tx = owner'[p] /\ q[Max(Updates(q, p))].new = pool'[p]
    <2>1. CASE r.type = "update" /\ r.page = p
      <3>1. owner'[p] = r.tx /\ pool'[p] = r.new /\ r.tx \in act BY <1>5, <2>1
      <3>2. \A i \in Updates(Log, p) : i \in Nat /\ i <= N BY <1>1 DEF Updates
      <3>3. /\ N + 1 \in Updates(q, p) /\ Updates(q, p) \subseteq Nat
            /\ \A i \in Updates(q, p) : i <= N + 1
        BY <1>1, <1>3, <2>1, <3>2
      <3>4. Max(Updates(q, p)) = N + 1 BY <3>3, MaxIs
      <3>5. QED BY <1>2, <3>1, <3>3, <3>4
    <2>2. CASE ~(r.type = "update" /\ r.page = p)
      <3>1. owner'[p] = owner[p] /\ pool'[p] = pool[p] /\ owner[p] \in act BY <1>5, <2>2
      <3>2. Updates(q, p) = Updates(Log, p) BY <1>1, <2>2, UpdatesAppend DEF q
      <3>3. /\ Updates(Log, p) # {}
            /\ Log[Max(Updates(Log, p))].tx = owner[p] /\ Log[Max(Updates(Log, p))].new = pool[p]
        BY <1>5, <3>1 DEF WalInv, PoolOK
      <3>4. Max(Updates(Log, p)) \in 1 .. N BY <1>1, <3>3, UpdatesFacts
      <3>5. QED BY <1>2, <3>1, <3>2, <3>3, <3>4
    <2>3. QED BY <2>1, <2>2
  <1>6. \A p \in Page : owner'[p] = 0 => pool'[p] = Restored(q, disk', p) BY DEF q
  <1>7. \A p \in Page : IsActive(owner[p])' <=> owner'[p] \in act OBVIOUS
  <1>8. QED BY <1>4, <1>5, <1>6, <1>7 DEF PoolOK

\* Changes in the buffer after a record r joined.
LEMMA JoinsDirty ==
  ASSUME WalInv, up, NEW r \in Record, r.lsn = next_lsn, Joins(r),
         \A p \in Page :
           \/ page_lsn'[p] = next_lsn
           \/ ~(r.type = "update" /\ r.page = p) /\ (page_lsn'[p] = page_lsn[p] \/ Logged(p))
  PROVE  DirtyOK'
  <1> DEFINE N == Len(Log)
             q == Append(Log, r)
  <1>1. /\ LogInv /\ Log \in Seq(Record) /\ N \in Nat /\ Len(wal_file) \in Nat
    BY LogTypes DEF WalInv
  <1>2. Log' = q /\ Len(wal_file') \in Len(wal_file) .. Len(Log') BY <1>1, JoinsFacts
  <1>3. q[N + 1] = r /\ Len(q) = N + 1 /\ \A i \in 1 .. N : q[i] = Log[i] BY <1>1, AppendFacts
  <1>4. \A p, i : i \in Updates(q, p) <=>
          i \in Updates(Log, p) \/ (i = N + 1 /\ r.type = "update" /\ r.page = p)
    BY <1>1, UpdatesAppend
  <1>5. next_lsn \in Nat /\ \A i \in 1 .. N : Log[i].lsn = next_lsn - 1 - (N - i)
    BY <1>1 DEF LogInv, WalTypeOK, Counters
  <1> HIDE DEF q
  <1>6. ASSUME NEW p \in Page, NEW i \in Updates(q, p), i > Len(wal_file')
        PROVE  q[i].lsn <= page_lsn'[p]
    <2>1. i \in 1 .. (N + 1) BY <1>3 DEF Updates
    <2>2. q[i].lsn <= next_lsn
      <3>1. CASE i = N + 1 BY <1>3, <1>5, <3>1
      <3>2. CASE i # N + 1
        <4>1. i \in 1 .. N BY <1>1, <2>1, <3>2
        <4>2. QED BY <1>1, <1>3, <1>5, <4>1
      <3>3. QED BY <3>1, <3>2
    <2>3. CASE page_lsn'[p] = next_lsn BY <2>2, <2>3
    <2>4. CASE page_lsn'[p] # next_lsn
      <3>1. ~(r.type = "update" /\ r.page = p) /\ (page_lsn'[p] = page_lsn[p] \/ Logged(p))
        BY <2>4
      <3>2. i \in Updates(Log, p) /\ i \in 1 .. N
        <4>1. i \in Updates(Log, p) BY <1>4, <3>1
        <4>2. QED BY <4>1 DEF Updates
      <3>3. i > Len(wal_file) BY <1>1, <1>2, <1>3, <1>6, <3>2
      <3>4. ~Logged(p)
        <4>1. ~(i <= Len(wal_file)) BY <1>1, <3>2, <3>3
        <4>2. QED BY <3>2, <4>1, LoggedClean
      <3>5. Log[i].lsn <= page_lsn[p] BY <3>2, <3>3 DEF WalInv, DirtyOK
      <3>6. QED BY <1>3, <3>1, <3>2, <3>4, <3>5
    <2>5. QED BY <2>3, <2>4
  <1>7. QED BY <1>2, <1>6 DEF DirtyOK

\* Database file and versions after a record r joined that changes nothing
\* of what is restored; the file was written back to d before.
LEMMA JoinsSays ==
  ASSUME WalInv, up, NEW r \in Record, r.lsn = next_lsn, Joins(r), NEW d,
         DiskSays(Log, Len(wal_file), d), VersionsSay(Log, Len(wal_file), d, versions),
         \A p \in Page : Restored(Log, d, p) = Restored(Log, disk, p),
         \A p \in Page : Restored(Append(Log, r), d, p) = Restored(Log, d, p),
         r.type = "checkpoint" => \A p \in Page : d[p] = Restored(Log, d, p),
         disk' = d, versions' = versions
  PROVE  DiskOK' /\ VersionsOK'
  <1>1. /\ LogInv /\ Log \in Seq(Record) /\ Len(Log) \in Nat /\ Len(wal_file) \in 0 .. Len(Log)
    BY LogTypes DEF WalInv
  <1>2. Log' = Append(Log, r) /\ Len(wal_file') \in Len(wal_file) .. Len(Log') BY <1>1, JoinsFacts
  <1>3. Len(wal_file') \in Len(wal_file) .. (Len(Log) + 1) BY <1>1, <1>2, AppendFacts
  <1>4. ASSUME NEW p \in Page, Recent(Append(Log, r), p) = {}
        PROVE  d[p] = Restored(Append(Log, r), d, p)
    <2>1. CASE r.type = "checkpoint" BY <2>1
    <2>2. CASE r.type # "checkpoint"
      <3>1. Recent(Log, p) = {} BY <1>1, <1>4, <2>2, RecentAppend
      <3>2. SubSeq(Log, 1, Len(Log)) = Log /\ Len(Log) \in Len(wal_file) .. Len(Log)
        BY <1>1, PrefixAll
      <3>3. d[p] = Restored(Log, d, p) BY <3>1, <3>2 DEF DiskSays
      <3>4. QED BY <3>3
    <2>3. QED BY <2>1, <2>2
  <1>5. Len(versions) \in Nat \ {0} BY <1>1, LastVersionType
  <1>6. \A p \in Page : versions[Len(versions)][p] = Restored(Append(Log, r), d, p)
    BY DEF WalInv, VersionsOK, LastSays
  <1>7. \E k \in 1 .. Len(versions) : \A p \in Page : versions[k][p] = Restored(Append(Log, r), d, p)
    BY <1>5, <1>6
  <1>8. /\ DiskSays(Append(Log, r), Len(wal_file'), d)
        /\ VersionsSay(Append(Log, r), Len(wal_file'), d, versions)
    BY <1>1, <1>3, <1>4, <1>7, SaysAppend
  <1>9. QED BY <1>2, <1>6, <1>8 DEF DiskOK, VersionsOK, LastSays

\* wal_log_begin and wal_log_page.
LEMMA PlainInv ==
  ASSUME WalInv, up, up' = up, LogInv', NEW r \in Record, r.lsn = next_lsn, Joins(r),
         r.type \in {"begin", "alloc_free"}, IsActive(r.tx) \/ r.tx = next_tx_id,
         NEW act, \A u : IsActive(u)' <=> u \in act,
         \A u : IsActive(u) => u \in act, \A u \in act : IsActive(u) \/ u = next_tx_id,
         UNCHANGED <<pool, page_lsn, disk, owner, versions>>
  PROVE  WalInv'
  <1>1. /\ LogInv /\ Log \in Seq(Record) /\ \A i \in 1 .. Len(Log) : Log[i].tx \in Nat
        /\ next_tx_id \in Nat
    BY LogTypes DEF WalInv, LogInv, WalTypeOK
  <1>2. Log' = Append(Log, r) BY <1>1, JoinsFacts
  <1>3. \A p \in Page : Restored(Append(Log, r), disk, p) = Restored(Log, disk, p)
    BY <1>1, RestoredAppend
  <1>4. Tidy(Log') BY <1>2, JoinsTidy
  <1>5. OpenOK'
    <2>1. ASSUME NEW i \in 1 .. Len(Log), Log[i].tx \in act PROVE IsActive(Log[i].tx)
      <3>1. Log[i].tx < next_tx_id BY <1>1 DEF LogInv, Counters
      <3>2. QED BY <1>1, <2>1, <3>1
    <2>2. QED BY <1>2, <2>1, JoinsOpen
  <1>6. PoolOK'
    <2> SUFFICES ASSUME NEW p \in Page
                 PROVE  \/ owner'[p] = 0 /\ pool'[p] = Restored(Append(Log, r), disk', p)
                        \/ /\ owner'[p] # 0 /\ owner'[p] = owner[p] /\ pool'[p] = pool[p]
                           /\ owner[p] \in act /\ ~(r.type = "update" /\ r.page = p)
      BY <1>2, JoinsPool
    <2>1. owner[p] = 0 => pool[p] = Restored(Log, disk, p) BY DEF WalInv, PoolOK
    <2>2. owner[p] # 0 => owner[p] \in act
      <3>1. owner[p] # 0 => IsActive(owner[p]) BY DEF WalInv, PoolOK
      <3>2. QED BY <3>1
    <2>3. QED BY <1>3, <2>1, <2>2
  <1>7. DirtyOK' BY JoinsDirty
  <1>8. DiskOK' /\ VersionsOK'
    <2>1. DiskSays(Log, Len(wal_file), disk) /\ VersionsSay(Log, Len(wal_file), disk, versions)
      BY DEF WalInv, DiskOK, VersionsOK
    <2>2. QED BY <1>3, <2>1, JoinsSays
  <1>9. QED BY <1>4, <1>5, <1>6, <1>7, <1>8 DEF WalInv

LEMMA BeginPageInv ==
  ASSUME WalInv, wal_log_begin \/ \E t \in 1 .. MaxTx : wal_log_page(t)
  PROVE  WalInv'
  <1>1. LogInv BY DEF WalInv
  <1>2. CASE wal_log_begin
    <2>1. /\ up /\ up' = up /\ active_tx' = Append(active_tx, next_tx_id)
          /\ UNCHANGED <<pool, page_lsn, disk, owner, versions>>
      BY <1>2 DEF wal_log_begin, historyVars
    <2>2. LogInv' /\ Joins(BeginRec) /\ \A u : IsActive(u)' <=> IsActive(u) \/ u = next_tx_id
      BY <1>1, <1>2, BeginLogInv
    <2>3. /\ BeginRec \in Record /\ BeginRec.lsn = next_lsn /\ BeginRec.type = "begin"
          /\ BeginRec.tx = next_tx_id
      BY <1>1, BeginRecFacts
    <2> DEFINE act == {u \in Nat : IsActive(u)} \cup {next_tx_id}
    <2>4. /\ \A u : IsActive(u)' <=> u \in act
          /\ \A u : IsActive(u) => u \in act
          /\ \A u \in act : IsActive(u) \/ u = next_tx_id
      <3>1. \A u : IsActive(u) => u \in Nat BY <1>1, ActiveFacts
      <3>2. QED BY <2>2, <3>1
    <2> HIDE DEF act
    <2>5. QED BY <2>1, <2>2, <2>3, <2>4, PlainInv
  <1>3. ASSUME NEW t \in 1 .. MaxTx, wal_log_page(t) PROVE WalInv'
    <2> DEFINE r == Rec(t, "alloc_free", NoPage, 0, 0)
    <2>1. /\ up /\ up' = up /\ active_tx' = active_tx /\ IsActive(t) /\ Joins(r)
          /\ UNCHANGED <<pool, page_lsn, disk, owner, versions>>
      BY <1>3 DEF wal_log_page, historyVars, Joins, SimpleRec
    <2>2. LogInv' BY <1>1, <1>3, PageLogInv
    <2>3. r \in Record /\ r.lsn = next_lsn /\ r.type = "alloc_free" /\ r.tx = t
      <3>1. "alloc_free" \in Types /\ NoPage \in Page \cup {NoPage} /\ 0 \in Value
        BY WalConstants DEF Types
      <3>2. QED BY <1>1, <2>1, <3>1, RecFacts
    <2> HIDE DEF r
    <2>4. \A u : IsActive(u)' <=> IsActive(u) BY <2>1 DEF IsActive, ActiveIdx
    <2>5. IsActive(r.tx) BY <2>1, <2>3
    <2> DEFINE act == {u \in Nat : IsActive(u)}
    <2>6. /\ \A u : IsActive(u)' <=> u \in act
          /\ \A u : IsActive(u) => u \in act
          /\ \A u \in act : IsActive(u) \/ u = next_tx_id
      <3>1. \A u : IsActive(u) => u \in Nat BY <1>1, ActiveFacts
      <3>2. QED BY <2>4, <3>1
    <2> HIDE DEF act
    <2>7. QED BY <2>1, <2>2, <2>3, <2>5, <2>6, PlainInv
  <1>4. QED BY <1>2, <1>3

\* Steps that add no transaction: who is active and what they own.
LEMMA OwnerFacts ==
  ASSUME WalInv, up
  PROVE  /\ \A u : IsActive(u) => u \in Nat \ {0}
         /\ \A p \in Page : owner[p] \in Nat /\ (owner[p] # 0 => IsActive(owner[p]))
         /\ \A t, p, i : IsActive(t) /\ i \in Updates(Log, p) /\ Log[i].tx = t => owner[p] = t
         /\ \A t : IsActive(t) => ~Committed(Log, t)
  <1>1. LogInv BY DEF WalInv
  <1>2. \A u : IsActive(u) => u \in Nat \ {0} BY <1>1, ActiveFacts
  <1>3. \A p \in Page : owner[p] \in Nat BY <1>1 DEF LogInv, WalTypeOK
  <1>4. \A p \in Page : owner[p] # 0 => IsActive(owner[p]) BY DEF WalInv, PoolOK
  <1>5. \A t, p, i : IsActive(t) /\ i \in Updates(Log, p) /\ Log[i].tx = t => owner[p] = t
    BY DEF WalInv, OpenOK, Updates
  <1>6. ASSUME NEW t, IsActive(t), Committed(Log, t) PROVE FALSE
    <2>1. PICK k \in 1 .. Len(Log) : Log[k].type = "commit" /\ Log[k].tx = t
      BY <1>6 DEF Committed
    <2>2. QED BY <1>6, <2>1 DEF WalInv, OpenOK
  <1>7. QED BY <1>2, <1>3, <1>4, <1>5, <1>6

\* wal_log_update: the page is unlocked or the transaction's own, so the log's
\* last change of it is committed or the transaction's own.
LEMMA UpdateInv ==
  ASSUME WalInv, kept' = Needs, NEW t, NEW p \in Page, NEW v \in Value,
         wal_log_update(t, p, v)
  PROVE  WalInv'
  <1> DEFINE r == Rec(t, "update", p, pool[p], v)
             act == {u \in Nat : IsActive(u)}
  <1>1. /\ LogInv /\ Log \in Seq(Record) /\ Len(Log) \in Nat
        /\ \A i \in 1 .. Len(Log) : Log[i].tx \in Nat
    BY LogTypes DEF WalInv
  <1>2. /\ up /\ up' = up /\ IsActive(t) /\ owner[p] \in {0, t} /\ Ghosts(p) = {}
        /\ Joins(r) /\ active_tx' = active_tx /\ disk' = disk /\ versions' = versions
        /\ pool' = [pool EXCEPT ![p] = v] /\ page_lsn' = [page_lsn EXCEPT ![p] = next_lsn]
        /\ owner' = [owner EXCEPT ![p] = t]
    BY DEF wal_log_update, KeepsNeed, Needs, Joins
  <1>3. LogInv' BY <1>1, UpdateLogInv
  <1>4. /\ r \in Record /\ r.lsn = next_lsn /\ r.type = "update" /\ r.tx = t
        /\ r.page = p /\ r.old = pool[p] /\ r.new = v
    <2>1. pool[p] \in Value BY <1>1 DEF LogInv, WalTypeOK
    <2>2. QED BY <1>1, <1>2, <2>1, RecFacts DEF Types
  <1> HIDE DEF r
  <1>5. Log' = Append(Log, r) BY <1>1, <1>2, <1>4, JoinsFacts
  <1>6. /\ \A u : IsActive(u) => u \in Nat \ {0}
        /\ \A q \in Page : owner[q] \in Nat /\ (owner[q] # 0 => IsActive(owner[q]))
        /\ \A x, q, i : IsActive(x) /\ i \in Updates(Log, q) /\ Log[i].tx = x => owner[q] = x
        /\ ~Committed(Log, t)
    BY <1>2, OwnerFacts
  <1>7. \A u : IsActive(u)' <=> u \in act
    <2>1. \A u : IsActive(u)' <=> IsActive(u) BY <1>2 DEF IsActive, ActiveIdx
    <2>2. QED BY <1>6, <2>1
  <1>8. pool \in [Page -> Value] /\ page_lsn \in [Page -> Nat] /\ owner \in [Page -> Nat]
    BY <1>1 DEF LogInv, WalTypeOK
  <1>9. \A i \in Updates(Log, p) : Log[i].tx # t => Committed(Log, Log[i].tx)
    <2> SUFFICES ASSUME NEW i \in Updates(Log, p), Log[i].tx # t PROVE Committed(Log, Log[i].tx)
      OBVIOUS
    <2>1. i \in 1 .. Len(Log) /\ Log[i].type = "update" /\ Log[i].page = p BY DEF Updates
    <2>2. Log[i].tx # 0 BY <2>1 DEF WalInv, OpenOK
    <2>3. ~IsActive(Log[i].tx) BY <1>2, <1>6, <2>2
    <2>4. i \notin Ghosts(p) BY <1>2
    <2>5. QED BY <2>1, <2>3, <2>4 DEF Ghosts, Log
  <1>10. Updates(Log, p) # {} => pool[p] = Log[Max(Updates(Log, p))].new
    <2> SUFFICES ASSUME Updates(Log, p) # {} PROVE pool[p] = Log[Max(Updates(Log, p))].new
      OBVIOUS
    <2>1. CASE owner[p] = 0
      <3>1. pool[p] = Restored(Log, disk, p) BY <1>2, <2>1 DEF WalInv, PoolOK
      <3> DEFINE m == Max(Updates(Log, p))
      <3>2. m \in Updates(Log, p) /\ \A i \in Updates(Log, p) : i <= m BY <1>1, UpdatesFacts
      <3> HIDE DEF m
      <3>3. Log[m].tx # t BY <1>2, <1>6, <2>1, <3>2
      <3>4. m \in Won(Log, p) BY <1>9, <3>2, <3>3 DEF Won
      <3>5. Won(Log, p) \subseteq Nat /\ \A i \in Won(Log, p) : i <= m
        BY <1>1, <3>2, UpdatesFacts DEF Won
      <3>6. Max(Won(Log, p)) = m BY <3>4, <3>5, MaxIs
      <3>7. QED BY <3>1, <3>4, <3>6 DEF Restored, m
    <2>2. CASE owner[p] # 0 BY <1>2, <2>2 DEF WalInv, PoolOK
    <2>3. QED BY <2>1, <2>2
  <1>11. Tidy(Log')
    <2>1. ASSUME NEW i \in 1 .. Len(Log), NEW k \in 1 .. Len(Log), i < k,
                 Log[i].type = "update", Log[k].type = "checkpoint", Log[i].tx = t
          PROVE  FALSE
      <3>1. k \in i .. Len(Log) BY <1>1, <2>1
      <3>2. QED BY <1>2, <2>1, <3>1 DEF WalInv, OpenOK
    <2>2. Tidy(Log) BY DEF WalInv
    <2>3. QED BY <1>1, <1>4, <1>5, <1>6, <1>9, <1>10, <2>1, <2>2, TidyAppend
  <1>12. \A q \in Page : Restored(Append(Log, r), disk, q) = Restored(Log, disk, q)
    <2> TAKE q \in Page
    <2>1. ASSUME q = p, Updates(Log, p) = {} PROVE r.old = disk[p]
      <3>1. owner[p] = 0 BY <1>2, <2>1 DEF WalInv, PoolOK
      <3>2. pool[p] = Restored(Log, disk, p) BY <1>2, <3>1 DEF WalInv, PoolOK
      <3>3. QED BY <1>4, <2>1, <3>2, RestoredNone
    <2>2. QED BY <1>1, <1>4, <1>6, <2>1, RestoredAppend
  <1>13. OpenOK'
    <2>1. owner'[p] = t /\ t # 0 BY <1>2, <1>6, <1>8
    <2>2. ASSUME NEW i \in 1 .. Len(Log), Log[i].type \in {"update", "commit"}, Log[i].tx \in act
          PROVE  /\ IsActive(Log[i].tx)
                 /\ owner[Log[i].page] = Log[i].tx => owner'[Log[i].page] = Log[i].tx
      <3>1. IsActive(Log[i].tx) /\ Log[i].tx # 0 BY <1>6, <2>2
      <3>2. CASE Log[i].page = p BY <1>2, <2>1, <3>1, <3>2
      <3>3. CASE Log[i].page # p BY <1>2, <1>8, <3>1, <3>3
      <3>4. QED BY <3>2, <3>3
    <2> HIDE DEF act
    <2>3. QED BY <1>4, <1>5, <1>7, <2>1, <2>2, JoinsOpen
  <1>14. PoolOK'
    <2> SUFFICES ASSUME NEW q \in Page
                 PROVE  \/ owner'[q] = 0 /\ pool'[q] = Restored(Append(Log, r), disk', q)
                        \/ /\ owner'[q] # 0 /\ owner'[q] = owner[q] /\ pool'[q] = pool[q]
                           /\ owner[q] \in act /\ ~(r.type = "update" /\ r.page = q)
                        \/ /\ owner'[q] # 0 /\ owner'[q] = r.tx /\ pool'[q] = r.new
                           /\ r.tx \in act /\ r.type = "update" /\ r.page = q
      <3> HIDE DEF act
      <3>1. QED BY <1>2, <1>4, <1>5, <1>7, JoinsPool
    <2>1. CASE q = p
      <3>1. owner'[p] = t /\ t # 0 /\ pool'[p] = v /\ t \in act BY <1>2, <1>6, <1>8
      <3>2. QED BY <1>4, <2>1, <3>1
    <2>2. CASE q # p
      <3>1. owner'[q] = owner[q] /\ pool'[q] = pool[q] BY <1>2, <1>8, <2>2
      <3>2. owner[q] = 0 => pool[q] = Restored(Log, disk, q) BY <1>2 DEF WalInv, PoolOK
      <3>3. QED BY <1>2, <1>4, <1>6, <1>12, <2>2, <3>1, <3>2
    <2>3. QED BY <2>1, <2>2
  <1>15. DirtyOK'
    <2>1. page_lsn'[p] = next_lsn /\ \A q \in Page \ {p} : page_lsn'[q] = page_lsn[q]
      BY <1>2, <1>8
    <2>2. QED BY <1>2, <1>4, <2>1, JoinsDirty
  <1>16. DiskOK' /\ VersionsOK'
    <2>1. DiskSays(Log, Len(wal_file), disk) /\ VersionsSay(Log, Len(wal_file), disk, versions)
      BY DEF WalInv, DiskOK, VersionsOK
    <2>2. QED BY <1>2, <1>4, <1>12, <2>1, JoinsSays
  <1>17. QED BY <1>3, <1>11, <1>13, <1>14, <1>15, <1>16 DEF WalInv

LEMMA EndRecFacts ==
  ASSUME LogInv, up, NEW t, IsActive(t), NEW ty \in {"commit", "abort"}
  PROVE  /\ SimpleRec(t, ty) \in Record /\ SimpleRec(t, ty).lsn = next_lsn
         /\ SimpleRec(t, ty).type = ty /\ SimpleRec(t, ty).tx = t
  <1>1. ty \in Types /\ ty # "torn" /\ NoPage \in Page \cup {NoPage} /\ 0 \in Value
    BY WalConstants DEF Types
  <1>2. QED BY <1>1, RecFacts DEF SimpleRec

\* The transaction t ends: its locks go.
LEMMA EndsOpen ==
  ASSUME WalInv, up, NEW t, IsActive(t), NEW r \in Record, Log' = Append(Log, r),
         r.type \in {"commit", "abort"}, r.tx = t,
         \A u : IsActive(u)' <=> IsActive(u) /\ u # t,
         owner' = [p \in Page |-> IF owner[p] = t THEN 0 ELSE owner[p]]
  PROVE  /\ OpenOK'
         /\ \A u : IsActive(u)' <=> u \in {w \in Nat : IsActive(w)} \ {t}
  <1> DEFINE act == {w \in Nat : IsActive(w)} \ {t}
  <1>1. /\ \A u : IsActive(u) => u \in Nat \ {0}
        /\ \A t_1, p, i : IsActive(t_1) /\ i \in Updates(Log, p) /\ Log[i].tx = t_1 => owner[p] = t_1
    BY OwnerFacts
  <1>2. \A u : IsActive(u)' <=> u \in act BY <1>1
  <1>3. ASSUME NEW i \in 1 .. Len(Log), Log[i].type \in {"update", "commit"}, Log[i].tx \in act
        PROVE  /\ IsActive(Log[i].tx)
               /\ owner[Log[i].page] = Log[i].tx => owner'[Log[i].page] = Log[i].tx
    <2>1. IsActive(Log[i].tx) /\ Log[i].tx # t BY <1>3
    <2>2. Log[i].page \in Page BY <1>3, <2>1 DEF WalInv, OpenOK
    <2>3. QED BY <2>1, <2>2
  <1>4. t # 0 /\ r.tx \notin act BY <1>1
  <1> HIDE DEF act
  <1>5. OpenOK' BY <1>2, <1>3, <1>4, JoinsOpen
  <1>6. QED BY <1>2, <1>5 DEF act

\* wal_log_commit: its pages are restored as they are in the pool from now
\* on; the others are as before.
LEMMA CommitInv ==
  ASSUME WalInv, NEW t, wal_log_commit(t) \/ wal_log_commit_fail(t)
  PROVE  WalInv'
  <1> DEFINE r == SimpleRec(t, "commit")
  <1>1. /\ LogInv /\ Log \in Seq(Record) /\ Len(Log) \in Nat
        /\ Len(wal_file) \in 0 .. Len(Log)
    BY LogTypes DEF WalInv
  <1>2. /\ up /\ up' = up /\ IsActive(t)
        /\ pool' = pool /\ page_lsn' = page_lsn /\ disk' = disk
        /\ owner' = [p \in Page |-> IF owner[p] = t THEN 0 ELSE owner[p]]
    BY DEF wal_log_commit, wal_log_commit_fail, TxEnds
  <1>3. /\ LogInv' /\ Joins(r) /\ \A u : IsActive(u)' <=> IsActive(u) /\ u # t
    BY <1>1, CommitLogInv
  <1>4. r \in Record /\ r.lsn = next_lsn /\ r.type = "commit" /\ r.tx = t
    BY <1>1, <1>2, EndRecFacts
  <1>5. wal_log_commit(t) => LogAppendFlush(r) BY DEF wal_log_commit
  <1> HIDE DEF r
  <1> DEFINE q == Append(Log, r)
             act == {w \in Nat : IsActive(w)} \ {t}
  <1>6. /\ Log' = q /\ Len(wal_file') \in Len(wal_file) .. Len(Log')
        /\ wal_log_commit(t) => Len(wal_file') = Len(Log')
    BY <1>1, <1>2, <1>3, <1>4, <1>5, JoinsFacts
  <1>7. Len(q) = Len(Log) + 1 BY <1>1, <1>4, AppendFacts
  <1>8. OpenOK' /\ \A u : IsActive(u)' <=> u \in act
    BY <1>2, <1>3, <1>4, <1>6, EndsOpen
  <1>9. /\ \A u : IsActive(u) => u \in Nat \ {0}
        /\ \A p \in Page : owner[p] \in Nat /\ (owner[p] # 0 => IsActive(owner[p]))
        /\ \A x, p, i : IsActive(x) /\ i \in Updates(Log, p) /\ Log[i].tx = x => owner[p] = x
    BY <1>2, OwnerFacts
  <1>10. Tidy(Log') BY <1>2, <1>4, <1>6, JoinsTidy
  <1>11. \A p \in Page : owner[p] # t => Restored(q, disk, p) = Restored(Log, disk, p)
    BY <1>1, <1>2, <1>4, <1>9, RestoredAppend
  <1>12. ASSUME NEW p \in Page, owner[p] = t
         PROVE  /\ Updates(Log, p) # {} /\ Log[Max(Updates(Log, p))].tx = t
                /\ Restored(q, disk, p) = pool[p]
    <2>1. /\ Updates(Log, p) # {} /\ Log[Max(Updates(Log, p))].tx = t
          /\ Log[Max(Updates(Log, p))].new = pool[p]
      BY <1>2, <1>9, <1>12 DEF WalInv, PoolOK
    <2>2. Restored(q, disk, p) = Log[Max(Updates(Log, p))].new
      BY <1>1, <1>4, <2>1, RestoredCommit
    <2>3. QED BY <2>1, <2>2
  <1>13. \A p \in Page : Overlay(t)[p] = Restored(q, disk, p)
    BY <1>2, <1>11, <1>12 DEF Overlay, WalInv, VersionsOK, LastSays
  <1>14. PoolOK'
    <2> SUFFICES ASSUME NEW p \in Page
                 PROVE  \/ owner'[p] = 0 /\ pool'[p] = Restored(Append(Log, r), disk', p)
                        \/ /\ owner'[p] # 0 /\ owner'[p] = owner[p] /\ pool'[p] = pool[p]
                           /\ owner[p] \in act /\ ~(r.type = "update" /\ r.page = p)
      <3> HIDE DEF act
      <3>1. QED BY <1>2, <1>4, <1>6, <1>8, JoinsPool
    <2>1. CASE owner[p] = t BY <1>2, <1>12, <2>1
    <2>2. CASE owner[p] # t /\ owner[p] = 0
      <3>1. pool[p] = Restored(Log, disk, p) BY <1>2, <2>2 DEF WalInv, PoolOK
      <3>2. QED BY <1>2, <1>11, <2>2, <3>1
    <2>3. CASE owner[p] # t /\ owner[p] # 0
      <3>1. owner[p] \in act BY <1>9, <2>3
      <3>2. QED BY <1>2, <1>4, <2>3, <3>1
    <2>4. QED BY <2>1, <2>2, <2>3
  <1>15. DirtyOK' BY <1>2, <1>3, <1>4, JoinsDirty
  <1>16. ASSUME NEW p \in Page, Recent(q, p) = {} PROVE disk[p] = Restored(q, disk, p)
    <2>1. Recent(Log, p) = {} BY <1>1, <1>4, <1>16, RecentAppend
    <2>2. owner[p] # t
      <3> SUFFICES ASSUME owner[p] = t PROVE FALSE OBVIOUS
      <3> DEFINE m == Max(Updates(Log, p))
      <3>1. m \in Updates(Log, p) /\ Log[m].tx = t BY <1>1, <1>12, UpdatesFacts
      <3> HIDE DEF m
      <3>2. m \in 1 .. Len(Log) /\ Log[m].type = "update" BY <3>1 DEF Updates
      <3>3. \A k \in m .. Len(Log) : Log[k].type # "checkpoint"
        BY <1>2, <3>1, <3>2 DEF WalInv, OpenOK
      <3>4. PICK k \in 1 .. Len(Log) : Log[k].type = "checkpoint" /\ ~(k < m)
        BY <2>1, <3>1 DEF Recent
      <3>5. k \in m .. Len(Log) BY <1>1, <3>2, <3>4
      <3>6. QED BY <3>3, <3>4, <3>5
    <2>3. SubSeq(Log, 1, Len(Log)) = Log /\ Len(Log) \in Len(wal_file) .. Len(Log)
      BY <1>1, PrefixAll
    <2>4. disk[p] = Restored(Log, disk, p)
      BY <2>1, <2>3 DEF WalInv, DiskOK, DiskSays
    <2>5. QED BY <1>11, <2>2, <2>4
  <1>17. /\ versions \in Seq([Page -> Value]) /\ Len(versions) \in Nat \ {0}
         /\ Overlay(t) \in [Page -> Value]
    BY <1>1, LastVersionType DEF LogInv, WalTypeOK
  <1>18. /\ Len(versions') \in Nat \ {0} /\ versions'[Len(versions')] = Overlay(t)
         /\ \/ Len(wal_file') = Len(Log) + 1
            \/ \A k \in 1 .. Len(versions) : \E l \in 1 .. Len(versions') : versions'[l] = versions[k]
    <2>1. CASE wal_log_commit(t)
      <3>1. versions' = <<Overlay(t)>> BY <2>1 DEF wal_log_commit
      <3>2. QED BY <1>6, <1>7, <2>1, <3>1
    <2>2. CASE wal_log_commit_fail(t)
      <3>1. versions' = Append(versions, Overlay(t)) BY <2>2 DEF wal_log_commit_fail
      <3>2. /\ Len(versions') = Len(versions) + 1
            /\ versions'[Len(versions) + 1] = Overlay(t)
            /\ \A k \in 1 .. Len(versions) : versions'[k] = versions[k]
        BY <1>17, <3>1, AppendProperties
      <3>3. \A k \in 1 .. Len(versions) : k \in 1 .. Len(versions') BY <1>17, <3>2
      <3>4. QED BY <1>17, <3>2, <3>3
    <2>3. QED BY <2>1, <2>2
  <1> HIDE DEF act
  <1>19. DiskOK' /\ VersionsOK'
    <2>1. DiskSays(Log, Len(wal_file), disk) /\ VersionsSay(Log, Len(wal_file), disk, versions)
      BY DEF WalInv, DiskOK, VersionsOK
    <2>2. Len(wal_file') \in Len(wal_file) .. (Len(Log) + 1) BY <1>6, <1>7
    <2>3. \A p \in Page : versions'[Len(versions')][p] = Restored(q, disk, p) BY <1>13, <1>18
    <2>4. \E k \in 1 .. Len(versions') : \A p \in Page : versions'[k][p] = Restored(q, disk, p)
      BY <1>18, <2>3
    <2>5. DiskSays(q, Len(wal_file'), disk) /\ VersionsSay(q, Len(wal_file'), disk, versions')
      BY <1>1, <1>4, <1>16, <1>18, <2>1, <2>2, <2>4, SaysAppend
    <2>6. QED BY <1>2, <1>6, <2>3, <2>5 DEF DiskOK, VersionsOK, LastSays
  <1>20. QED BY <1>3, <1>8, <1>10, <1>14, <1>15, <1>19 DEF WalInv

\* wal_log_abort, after which the client puts the last version back.
LEMMA AbortInv ==
  ASSUME WalInv, NEW t, wal_log_abort(t)
  PROVE  WalInv'
  <1> DEFINE r == SimpleRec(t, "abort")
             act == {w \in Nat : IsActive(w)} \ {t}
  <1>1. LogInv /\ Log \in Seq(Record) BY LogTypes DEF WalInv
  <1>2. /\ up /\ up' = up /\ IsActive(t)
        /\ page_lsn' = page_lsn /\ disk' = disk /\ versions' = versions
        /\ owner' = [p \in Page |-> IF owner[p] = t THEN 0 ELSE owner[p]]
        /\ pool' = [p \in Page |-> IF owner[p] = t THEN versions[Len(versions)][p] ELSE pool[p]]
    BY DEF wal_log_abort, TxEnds, historyVars
  <1>3. /\ LogInv' /\ Joins(r) /\ \A u : IsActive(u)' <=> IsActive(u) /\ u # t
    BY <1>1, AbortLogInv
  <1>4. r \in Record /\ r.lsn = next_lsn /\ r.type = "abort" /\ r.tx = t
    BY <1>1, <1>2, EndRecFacts
  <1> HIDE DEF r
  <1>5. Log' = Append(Log, r) BY <1>1, <1>2, <1>3, <1>4, JoinsFacts
  <1>6. OpenOK' /\ \A u : IsActive(u)' <=> u \in act
    BY <1>2, <1>3, <1>4, <1>5, EndsOpen
  <1>7. /\ \A u : IsActive(u) => u \in Nat \ {0}
        /\ \A p \in Page : owner[p] \in Nat /\ (owner[p] # 0 => IsActive(owner[p]))
    BY <1>2, OwnerFacts
  <1>8. Tidy(Log') BY <1>2, <1>4, <1>5, JoinsTidy
  <1>9. \A p \in Page : Restored(Append(Log, r), disk, p) = Restored(Log, disk, p)
    BY <1>1, <1>4, RestoredAppend
  <1>10. PoolOK'
    <2> SUFFICES ASSUME NEW p \in Page
                 PROVE  \/ owner'[p] = 0 /\ pool'[p] = Restored(Append(Log, r), disk', p)
                        \/ /\ owner'[p] # 0 /\ owner'[p] = owner[p] /\ pool'[p] = pool[p]
                           /\ owner[p] \in act /\ ~(r.type = "update" /\ r.page = p)
      <3> HIDE DEF act
      <3>1. QED BY <1>2, <1>4, <1>5, <1>6, JoinsPool
    <2>1. CASE owner[p] = t
      <3>1. versions[Len(versions)][p] = Restored(Log, disk, p)
        BY <1>2 DEF WalInv, VersionsOK, LastSays
      <3>2. QED BY <1>2, <1>9, <2>1, <3>1
    <2>2. CASE owner[p] # t /\ owner[p] = 0
      <3>1. pool[p] = Restored(Log, disk, p) BY <1>2, <2>2 DEF WalInv, PoolOK
      <3>2. QED BY <1>2, <1>9, <2>2, <3>1
    <2>3. CASE owner[p] # t /\ owner[p] # 0
      <3>1. owner[p] \in act BY <1>7, <2>3
      <3>2. QED BY <1>2, <1>4, <2>3, <3>1
    <2>4. QED BY <2>1, <2>2, <2>3
  <1>11. DirtyOK' BY <1>2, <1>3, <1>4, JoinsDirty
  <1>12. DiskOK' /\ VersionsOK'
    <2>1. DiskSays(Log, Len(wal_file), disk) /\ VersionsSay(Log, Len(wal_file), disk, versions)
      BY DEF WalInv, DiskOK, VersionsOK
    <2>2. QED BY <1>2, <1>3, <1>4, <1>9, <2>1, JoinsSays
  <1>13. QED BY <1>3, <1>6, <1>8, <1>10, <1>11, <1>12 DEF WalInv

\* wal_checkpoint: with no transaction active and the log ahead of the pool,
\* every page is restored as it is in the pool.
LEMMA CheckpointInv ==
  ASSUME WalInv, kept' = Needs, wal_checkpoint \/ wal_checkpoint_keep \/ wal_checkpoint_fail
  PROVE  WalInv'
  <1>1. /\ LogInv /\ Log \in Seq(Record) /\ Len(Log) \in Nat BY LogTypes DEF WalInv
  <1>2. /\ up /\ up' = up /\ active_tx = <<>> /\ active_tx' = active_tx
        /\ \A p \in Page : Logged(p)
        /\ disk' = pool /\ page_lsn' = Clean
        /\ pool' = pool /\ owner' = owner /\ versions' = versions
    BY DEF wal_checkpoint, wal_checkpoint_keep, wal_checkpoint_fail, FlushAll, Needs, txVars
  <1>3. (\A u : ~IsActive(u)) /\ (\A u : ~IsActive(u)')
    <2>1. Len(active_tx) = 0 /\ Len(active_tx') = 0 BY <1>2
    <2>2. QED BY <2>1 DEF IsActive, ActiveIdx
  <1>4. \A p \in Page : owner[p] = 0 BY <1>2, <1>3 DEF WalInv, PoolOK
  <1>5. \A p \in Page : pool[p] = Restored(Log, disk, p) BY <1>2, <1>4 DEF WalInv, PoolOK
  <1>6. /\ DiskSays(Log, Len(wal_file), pool) /\ VersionsSay(Log, Len(wal_file), pool, versions)
        /\ \A p \in Page : Restored(Log, pool, p) = Restored(Log, disk, p)
    BY <1>2, WrittenBack
  <1>7. CASE wal_checkpoint_keep \/ wal_checkpoint_fail
    <2>1. LogInv' /\ Joins(CheckpointRec) BY <1>1, <1>7, CheckpointKeepLogInv
    <2> DEFINE r == CheckpointRec
    <2>2. r \in Record /\ r.lsn = next_lsn /\ r.type = "checkpoint" /\ r.tx = 0
      BY <1>1, <1>2, CheckpointRecFacts
    <2> HIDE DEF r
    <2>3. Joins(r) BY <2>1 DEF r
    <2>4. Log' = Append(Log, r) BY <1>1, <1>2, <2>2, <2>3, JoinsFacts
    <2>5. \A p \in Page : Restored(Append(Log, r), pool, p) = Restored(Log, pool, p)
      BY <1>1, <2>2, RestoredAppend
    <2>6. Tidy(Log') BY <1>2, <2>2, <2>4, JoinsTidy
    <2> DEFINE act == {}
    <2>7. OpenOK'
      <3>1. (\A u : IsActive(u)' <=> u \in act) /\ \A u : u \notin act BY <1>3
      <3> HIDE DEF act
      <3>2. QED BY <2>2, <2>4, <3>1, JoinsOpen
    <2>8. PoolOK'
      <3>1. \A u : IsActive(u)' <=> u \in act BY <1>3
      <3> HIDE DEF act
      <3> SUFFICES ASSUME NEW p \in Page
                   PROVE  owner'[p] = 0 /\ pool'[p] = Restored(Append(Log, r), disk', p)
        BY <1>2, <2>2, <2>4, <3>1, JoinsPool
      <3>2. QED BY <1>2, <1>4, <1>5, <1>6, <2>5
    <2>9. DirtyOK' BY <1>2, <2>2, <2>3, JoinsDirty
    <2>10. DiskOK' /\ VersionsOK' BY <1>2, <1>5, <1>6, <2>2, <2>3, <2>5, JoinsSays
    <2>11. QED BY <2>1, <2>6, <2>7, <2>8, <2>9, <2>10 DEF WalInv
  <1>8. CASE wal_checkpoint
    <2>1. LogInv' /\ Log' = <<>> BY <1>1, <1>8, CheckpointLogInv
    <2>2. /\ wal_file' = <<>> /\ Len(wal_file') = 0 /\ Len(Log') = 0 /\ <<>> \in Seq(Record)
      BY <1>8, <2>1 DEF wal_checkpoint
    <2>3. \A p : Updates(<<>>, p) = {} /\ Updates(Log', p) = {}
      <3>1. \A p : Updates(Log', p) = {} BY <2>2 DEF Updates
      <3>2. QED BY <2>1, <3>1
    <2>4. \A p \in Page : Restored(<<>>, pool, p) = pool[p] BY <2>3, RestoredNone
    <2>5. Tidy(Log')
      <3>1. Serial(Log') /\ Chained(Log') /\ Quiet(Log') /\ CommitLast(Log')
        BY <2>2 DEF Serial, Chained, Quiet, CommitLast
      <3>2. QED BY <3>1 DEF Tidy
    <2>6. OpenOK' BY <2>2 DEF OpenOK
    <2>7. PoolOK' BY <1>2, <1>4, <2>1, <2>4 DEF PoolOK
    <2>8. DirtyOK' BY <2>3 DEF DirtyOK
    <2>9. \A n \in 0 .. 0 : SubSeq(<<>>, 1, n) = <<>>
      <3>1. SubSeq(<<>>, 1, Len(<<>>)) = <<>> BY <2>2, PrefixAll
      <3>2. QED BY <3>1
    <2>10. DiskSays(<<>>, 0, pool)
      <3>1. Len(<<>>) = 0 OBVIOUS
      <3>2. QED BY <2>4, <2>9, <3>1 DEF DiskSays
    <2>11. \A p \in Page : versions[Len(versions)][p] = pool[p]
      BY <1>2, <1>5 DEF WalInv, VersionsOK, LastSays
    <2>12. VersionsSay(<<>>, 0, pool, versions)
      <3>1. Len(<<>>) = 0 OBVIOUS
      <3>2. Len(versions) \in 1 .. Len(versions) BY <1>1, LastVersionType
      <3>3. \A p \in Page : versions[Len(versions)][p] = Restored(<<>>, pool, p) BY <2>4, <2>11
      <3>4. QED BY <2>9, <3>1, <3>2, <3>3 DEF VersionsSay
    <2>13. DiskOK' /\ VersionsOK'
      BY <1>2, <2>1, <2>2, <2>4, <2>10, <2>11, <2>12 DEF DiskOK, VersionsOK, LastSays
    <2>14. QED BY <2>1, <2>5, <2>6, <2>7, <2>8, <2>13 DEF WalInv
  <1>9. QED BY <1>7, <1>8

\* The process is gone, with n records in the log file.
LEMMA DownInv ==
  ASSUME WalInv, LogInv', NEW n \in 0 .. Len(Log), Log' = Prefix(n), wal_file' = Prefix(n),
         ~up', active_tx' = <<>>, versions' = versions,
         \A p \in Page : Recent(Prefix(n), p) = {} => disk'[p] = Restored(Prefix(n), disk', p),
         \E k \in 1 .. Len(versions) :
           \A p \in Page : versions[k][p] = Restored(Prefix(n), disk', p)
  PROVE  WalInv'
  <1> DEFINE q == Prefix(n)
  <1>1. /\ LogInv /\ Log \in Seq(Record) /\ Len(Log) \in Nat /\ Tidy(Log)
    BY LogTypes DEF WalInv
  <1>2. q \in Seq(Record) /\ Len(q) = n /\ \A i \in 1 .. n : q[i] = Log[i] /\ i \in 1 .. Len(Log)
    BY <1>1, PrefixFacts DEF Prefix
  <1>3. Tidy(Log') BY <1>1, TidyPrefix DEF Prefix
  <1>4. \A m \in n .. n : SubSeq(q, 1, m) = q
    <2>1. SubSeq(q, 1, n) = q BY <1>2, PrefixAll
    <2>2. QED BY <1>1, <2>1
  <1>5. Log' = q /\ Len(wal_file') = n /\ Len(Log') = n BY <1>2
  <1> HIDE DEF q
  <1>6. \A u : ~IsActive(u)'
    <2>1. Len(active_tx') = 0 OBVIOUS
    <2>2. QED BY <2>1 DEF IsActive, ActiveIdx
  <1>7. OpenOK' BY <1>2, <1>5, <1>6 DEF OpenOK, WalInv
  <1>8. PoolOK' BY DEF PoolOK
  <1>9. DirtyOK'
    <2>1. \A p \in Page : \A i \in Updates(Log', p) : ~(i > Len(wal_file'))
      BY <1>5 DEF Updates
    <2>2. QED BY <2>1 DEF DirtyOK
  <1>10. DiskSays(q, n, disk') BY <1>2, <1>4 DEF DiskSays, q
  <1>11. VersionsSay(q, n, disk', versions) BY <1>2, <1>4 DEF VersionsSay, q
  <1>12. DiskOK' /\ VersionsOK' BY <1>5, <1>10, <1>11 DEF DiskOK, VersionsOK, LastSays
  <1>13. QED BY <1>3, <1>7, <1>8, <1>9, <1>12 DEF WalInv

LEMMA ShutdownInv ==
  ASSUME WalInv, wal_shutdown
  PROVE  WalInv'
  <1> DEFINE N == Len(Log)
  <1>1. LogInv BY DEF WalInv
  <1>2. LogInv' /\ Log' = Log /\ wal_file' = Log BY <1>1, ShutdownLogInv
  <1>3. Log = Prefix(N) /\ N \in 0 .. N /\ N \in Nat
    BY <1>1, CrashedFileIs, LogTypes
  <1>4. up /\ ~up' /\ active_tx' = <<>> /\ versions' = versions /\ disk' = pool
    BY DEF wal_shutdown, Ends
  <1>5. \A p \in Page : \A i \in Updates(Log, p) : i <= N
    BY <1>3 DEF Updates
  <1> HIDE DEF N
  <1>6. \A p \in Page : /\ Restored(Log, pool, p) = Restored(Log, disk, p)
                        /\ Recent(Log, p) = {} => pool[p] = Restored(Log, pool, p)
    BY <1>3, <1>4, <1>5, WriteBack DEF N
  <1>7. Len(versions) \in 1 .. Len(versions) BY <1>1, LastVersionType
  <1>8. \A p \in Page : versions[Len(versions)][p] = Restored(Log, pool, p)
    BY <1>4, <1>6 DEF WalInv, VersionsOK, LastSays
  <1>9. \E k \in 1 .. Len(versions) : \A p \in Page : versions[k][p] = Restored(Log, pool, p)
    BY <1>7, <1>8
  <1>10. QED BY <1>2, <1>3, <1>4, <1>6, <1>9, DownInv DEF N

LEMMA CrashInv ==
  ASSUME WalInv, Crash
  PROVE  WalInv'
  <1> DEFINE n == Len(wal_file) + spilled
  <1>1. LogInv BY DEF WalInv
  <1>2. /\ LogInv' /\ Log' = Prefix(n) /\ wal_file' = Prefix(n) BY <1>1, DiesLogInv
  <1>3. n \in Len(wal_file) .. Len(Log) /\ n \in 0 .. Len(Log) BY <1>1, CrashedFileIs
  <1>4. ~up' /\ active_tx' = <<>> /\ versions' = versions /\ disk' = disk
    BY DEF Crash, Dies, Ends
  <1> HIDE DEF n
  <1>5. \A p \in Page : Recent(Prefix(n), p) = {} => disk[p] = Restored(Prefix(n), disk, p)
    BY <1>3 DEF WalInv, DiskOK, DiskSays, Prefix
  <1>6. \E k \in 1 .. Len(versions) : \A p \in Page : versions[k][p] = Restored(Prefix(n), disk, p)
    BY <1>3 DEF WalInv, VersionsOK, VersionsSay, Prefix
  <1>7. QED BY <1>2, <1>3, <1>4, <1>5, <1>6, DownInv

\* A recovery that is cut short has changed only pages that recovery looks at.
LEMMA PartlyKeeps ==
  ASSUME NEW s \in Seq(Record), Numbered(s), NEW d \in [Page -> Value],
         NEW n \in Start(s) .. Len(s), NEW e \in PartlyRecovered(d, s, n),
         NEW p \in Page, Recent(s, p) = {}
  PROVE  e[p] = d[p]
  <1>1. /\ Len(s) \in Nat /\ Start(s) \in Nat \ {0}
        /\ \A k \in Checkpoints(s) : k <= Start(s)
        /\ Checkpoints(s) # {} => Start(s) \in Checkpoints(s)
    BY StartFacts
  <1>2. Readable(s) = s BY NotTorn
  <1>3. ASSUME NEW i \in Start(s) .. Len(s), s[i].type = "update", s[i].page = p
        PROVE  FALSE
    <2>1. i \in 1 .. Len(s) /\ i \in Updates(s, p)
      <3>1. i \in 1 .. Len(s) BY <1>1
      <3>2. QED BY <1>3, <3>1 DEF Updates
    <2>2. PICK k \in 1 .. Len(s) : s[k].type = "checkpoint" /\ ~(k < i)
      BY <2>1 DEF Recent
    <2>3. k \in Checkpoints(s) BY <2>2 DEF Checkpoints
    <2>4. k = i BY <1>1, <2>1, <2>2, <2>3
    <2>5. QED BY <1>3, <2>2, <2>4
  <1>4. /\ Winners(s, p, Start(s) .. n) = {} /\ Winners(s, p, Start(s) .. Len(s)) = {}
        /\ Losers(s, p, n .. Len(s)) = {}
    <2>1. /\ \A i \in Start(s) .. n : i \in Start(s) .. Len(s)
          /\ \A i \in n .. Len(s) : i \in Start(s) .. Len(s)
      BY <1>1
    <2>2. QED BY <1>3, <2>1 DEF Winners, Losers
  <1>5. e \in {redo_phase(d, s, n), undo_phase(redo_phase(d, s, Len(s)), s, n)}
    BY <1>2 DEF PartlyRecovered
  <1>6. redo_phase(d, s, n)[p] = d[p] BY <1>4 DEF redo_phase
  <1>7. undo_phase(redo_phase(d, s, Len(s)), s, n)[p] = d[p] BY <1>4 DEF redo_phase, undo_phase
  <1>8. QED BY <1>5, <1>6, <1>7

LEMMA CrashInRecoveryInv ==
  ASSUME WalInv, CrashInRecovery
  PROVE  WalInv'
  <1> DEFINE N == Len(Log)
  <1>1. LogInv /\ Numbered(Log) BY DEF WalInv, LogInv
  <1>2. /\ LogInv' /\ Log' = Log BY <1>1, CrashInRecoveryLogInv
  <1>3. Log = Prefix(N) /\ N \in 0 .. N /\ N \in Nat /\ Log \in Seq(Record) /\ N \in Len(wal_file) .. N
    BY <1>1, CrashedFileIs, LogTypes
  <1>4. /\ ~up /\ ~up' /\ active_tx' = active_tx /\ versions' = versions /\ wal_file' = wal_file
    BY DEF CrashInRecovery, logVars, txVars
  <1>5. active_tx = <<>> /\ wal_file = Log
    <2>1. active_tx = <<>> /\ buffer = <<>> /\ wal_file \in Seq(Record)
      BY <1>1, <1>4 DEF LogInv, DownOK, WalTypeOK
    <2>2. QED BY <2>1, ConcatEmptySeq DEF Log
  <1>6. PICK n \in Start(Log) .. N : disk' \in PartlyRecovered(disk, Log, n)
    BY <1>1, <1>5, NotTorn DEF CrashInRecovery
  <1>7. disk \in [Page -> Value] BY <1>1 DEF LogInv, WalTypeOK
  <1>8. \A p \in Page : Recent(Log, p) = {} => disk'[p] = disk[p]
    BY <1>1, <1>3, <1>6, <1>7, PartlyKeeps
  <1>9. \A p \in Page : Restored(Log, disk', p) = Restored(Log, disk, p)
    <2>1. \A p \in Page : Recent(Log, p) # {} => Updates(Log, p) # {} BY DEF Recent
    <2>2. QED BY <1>8, <2>1, RestoredDisk
  <1> HIDE DEF N
  <1>10. \A p \in Page : Recent(Log, p) = {} => disk[p] = Restored(Log, disk, p)
    BY <1>3 DEF WalInv, DiskOK, DiskSays, Prefix, N
  <1>11. \E k \in 1 .. Len(versions) : \A p \in Page : versions[k][p] = Restored(Log, disk, p)
    BY <1>3 DEF WalInv, VersionsOK, VersionsSay, Prefix, N
  <1>12. QED BY <1>2, <1>3, <1>4, <1>5, <1>8, <1>9, <1>10, <1>11, DownInv DEF N

LEMMA RecoverInv ==
  ASSUME OldPages = Page, WalInv, wal_recover
  PROVE  WalInv'
  <1> DEFINE N == Len(Log)
  <1>1. LogInv /\ Numbered(Log) /\ Tidy(Log) BY DEF WalInv, LogInv
  <1>2. /\ LogInv' /\ Log' = Log /\ wal_file = Log /\ disk' = Recovered(disk, Log)
    BY <1>1, RecoverLogInv
  <1>3. /\ ~up /\ up' /\ pool' = disk' /\ versions' = <<disk'>> /\ wal_file' = wal_file
        /\ active_tx' = active_tx /\ owner' = owner
    BY DEF wal_recover
  <1>4. active_tx = <<>> /\ owner = Clean BY <1>1, <1>3 DEF LogInv, DownOK
  <1>5. Log = Prefix(N) /\ N \in Nat /\ Log \in Seq(Record) /\ N \in Len(wal_file) .. N
    BY <1>1, CrashedFileIs, LogTypes
  <1>6. disk \in [Page -> Value] BY <1>1 DEF LogInv, WalTypeOK
  <1>7. \A p \in Page : Recent(Log, p) = {} => disk[p] = Restored(Log, disk, p)
    BY <1>5 DEF WalInv, DiskOK, DiskSays, Prefix
  <1>8. \A p \in Page : disk'[p] = Restored(Log, disk, p)
    BY <1>1, <1>2, <1>5, <1>6, <1>7, RecoveryRestores
  <1>9. \A p \in Page : disk'[p] = Restored(Log, disk', p)
    <2>1. \A p \in Page : Updates(Log, p) = {} => disk'[p] = disk[p] BY <1>8, RestoredNone
    <2>2. \A p \in Page : Restored(Log, disk', p) = Restored(Log, disk, p)
      BY <2>1, RestoredDisk
    <2>3. QED BY <1>8, <2>2
  <1>10. \A u : ~IsActive(u)'
    <2>1. Len(active_tx') = 0 BY <1>3, <1>4
    <2>2. QED BY <2>1 DEF IsActive, ActiveIdx
  <1>11. OpenOK' BY <1>2, <1>10 DEF OpenOK, WalInv
  <1>12. PoolOK'
    <2>1. \A p \in Page : owner'[p] = 0 BY <1>3, <1>4 DEF Clean
    <2>2. QED BY <1>2, <1>3, <1>9, <2>1 DEF PoolOK
  <1>13. DirtyOK'
    <2>1. \A p \in Page : \A i \in Updates(Log', p) : ~(i > Len(wal_file'))
      BY <1>2, <1>3, <1>5 DEF Updates
    <2>2. QED BY <2>1 DEF DirtyOK
  <1>14. \A n \in N .. N : SubSeq(Log, 1, n) = Log
    <2>1. SubSeq(Log, 1, N) = Log BY <1>5 DEF Prefix
    <2>2. \A n \in N .. N : n = N BY <1>5
    <2>3. QED BY <2>1, <2>2
  <1> HIDE DEF N
  <1>15. DiskSays(Log, N, disk') BY <1>9, <1>14 DEF DiskSays, N
  <1>16. VersionsSay(Log, N, disk', <<disk'>>)
    <2>1. Len(<<disk'>>) = 1 /\ <<disk'>>[1] = disk' OBVIOUS
    <2>2. \A n \in N .. N, p \in Page : <<disk'>>[1][p] = Restored(SubSeq(Log, 1, n), disk', p)
      BY <1>9, <1>14, <2>1
    <2>3. 1 \in 1 .. Len(<<disk'>>) BY <2>1
    <2>4. QED BY <2>2, <2>3 DEF VersionsSay, N
  <1>17. LastSays'
    <2>1. Len(versions') = 1 /\ versions'[1] = disk' BY <1>3
    <2>2. QED BY <1>2, <1>9, <2>1 DEF LastSays
  <1>18. DiskOK' /\ VersionsOK'
    BY <1>2, <1>3, <1>15, <1>16, <1>17 DEF DiskOK, VersionsOK, N
  <1>19. QED BY <1>1, <1>2, <1>11, <1>12, <1>13, <1>18 DEF WalInv

LEMMA WalInitInv == WalInit => WalInv
  <1> SUFFICES ASSUME WalInit PROVE WalInv OBVIOUS
  <1>1. LogInv BY WalInitLogInv
  <1>2. /\ wal_file = <<>> /\ Log = <<>> /\ Len(wal_file) = 0 /\ Len(Log) = 0
        /\ <<>> \in Seq(Record)
    BY DEF WalInit, Log
  <1>3. /\ disk = Clean /\ pool = Clean /\ owner = Clean
        /\ Len(versions) = 1 /\ versions[1] = Clean
    BY DEF WalInit
  <1>4. \A p : Updates(Log, p) = {} BY <1>2 DEF Updates
  <1>5. \A p \in Page : Restored(Log, disk, p) = disk[p] BY <1>4, RestoredNone
  <1>6. Tidy(Log)
    <2>1. Serial(Log) /\ Chained(Log) /\ Quiet(Log) /\ CommitLast(Log)
      BY <1>2 DEF Serial, Chained, Quiet, CommitLast
    <2>2. QED BY <2>1 DEF Tidy
  <1>7. OpenOK BY <1>2 DEF OpenOK
  <1>8. PoolOK
    <2>1. \A p \in Page : owner[p] = 0 /\ pool[p] = disk[p] BY <1>3 DEF Clean
    <2>2. QED BY <1>5, <2>1 DEF PoolOK
  <1>9. DirtyOK BY <1>4 DEF DirtyOK
  <1>10. \A n \in 0 .. 0 : SubSeq(Log, 1, n) = Log
    <2>1. SubSeq(Log, 1, Len(Log)) = Log BY <1>2, PrefixAll
    <2>2. QED BY <1>2, <2>1
  <1>11. DiskOK BY <1>2, <1>5, <1>10 DEF DiskOK, DiskSays
  <1>12. VersionsOK
    <2>1. \A p \in Page : versions[1][p] = Restored(Log, disk, p) BY <1>3, <1>5
    <2>2. \A n \in 0 .. 0, p \in Page : versions[1][p] = Restored(SubSeq(Log, 1, n), disk, p)
      BY <1>10, <2>1
    <2>3. 1 \in 1 .. Len(versions) BY <1>3
    <2>4. VersionsSay(Log, 0, disk, versions) BY <1>2, <2>2, <2>3 DEF VersionsSay
    <2>5. QED BY <1>2, <1>3, <2>1, <2>4 DEF VersionsOK, LastSays
  <1>13. QED BY <1>1, <1>6, <1>7, <1>8, <1>9, <1>11, <1>12 DEF WalInv

\* A need that was not met once does not count as met again.
LEMMA KeptShrinks ==
  ASSUME [WalNext]_walVars
  PROVE  kept' \subseteq kept
  <1>1. CASE \/ wal_flush \/ wal_flush_fail \/ wal_log_begin \/ wal_log_begin_fail
             \/ \E t \in 1 .. MaxTx : wal_log_page(t) \/ wal_log_abort(t)
             \/ UNCHANGED walVars
    BY <1>1 DEF wal_flush, wal_flush_fail, wal_log_begin, wal_log_begin_fail, wal_log_page,
                wal_log_abort, walVars, historyVars
  <1>2. CASE \/ \E t \in 1 .. MaxTx : wal_log_commit(t) \/ wal_log_commit_fail(t)
             \/ wal_shutdown \/ Crash \/ CrashInRecovery \/ wal_recover
    BY <1>2 DEF wal_log_commit, wal_log_commit_fail, wal_shutdown, Crash, Dies, Ends,
                CrashInRecovery, wal_recover
  <1>3. CASE \/ \E t \in 1 .. MaxTx, p \in Page, v \in Value : wal_log_update(t, p, v)
             \/ \E p \in Page : flush_frame(p)
    BY <1>3 DEF wal_log_update, flush_frame, KeepsNeed
  <1>4. CASE wal_checkpoint \/ wal_checkpoint_keep \/ wal_checkpoint_fail
    BY <1>4 DEF wal_checkpoint, wal_checkpoint_keep, wal_checkpoint_fail, FlushAll
  <1>5. QED BY <1>1, <1>2, <1>3, <1>4 DEF WalNext

LEMMA WalNextInv ==
  ASSUME OldPages = Page, WalInv, [WalNext]_walVars, kept' = Needs
  PROVE  WalInv'
  <1>1. CASE wal_flush \/ wal_flush_fail \/ wal_log_begin_fail
               \/ (\E p \in Page : flush_frame(p)) \/ UNCHANGED walVars
    BY <1>1, FlushInv
  <1>2. CASE wal_log_begin \/ \E t \in 1 .. MaxTx : wal_log_page(t) BY <1>2, BeginPageInv
  <1>3. ASSUME NEW t \in 1 .. MaxTx, NEW p \in Page, NEW v \in Value, wal_log_update(t, p, v)
        PROVE  WalInv'
    BY <1>3, UpdateInv
  <1>4. ASSUME NEW t \in 1 .. MaxTx, wal_log_commit(t) \/ wal_log_commit_fail(t) PROVE WalInv'
    BY <1>4, CommitInv
  <1>5. ASSUME NEW t \in 1 .. MaxTx, wal_log_abort(t) PROVE WalInv' BY <1>5, AbortInv
  <1>6. CASE wal_checkpoint \/ wal_checkpoint_keep \/ wal_checkpoint_fail
    BY <1>6, CheckpointInv
  <1>7. CASE wal_shutdown BY <1>7, ShutdownInv
  <1>8. CASE Crash BY <1>8, CrashInv
  <1>9. CASE CrashInRecovery BY <1>9, CrashInRecoveryInv
  <1>10. CASE wal_recover BY <1>10, RecoverInv
  <1>11. QED
    BY <1>1, <1>2, <1>3, <1>4, <1>5, <1>6, <1>7, <1>8, <1>9, <1>10 DEF WalNext

LEMMA WalInvSafe ==
  ASSUME OldPages = Page, WalInv
  PROVE  RestoresCommitted
  <1> DEFINE n == Len(wal_file) + spilled
             s == Prefix(n)
  <1>1. /\ LogInv /\ Log \in Seq(Record) /\ Tidy(Log) /\ Numbered(Log) /\ Backlinked(Log)
    BY LogTypes DEF WalInv, LogInv
  <1>2. CrashedFile = s /\ n \in Len(wal_file) .. Len(Log) /\ n \in 0 .. Len(Log)
    BY <1>1, CrashedFileIs
  <1>3. s \in Seq(Record) /\ Tidy(s) /\ Numbered(s)
    BY <1>1, <1>2, PrefixFacts, TidyPrefix, OrderPrefix DEF Prefix
  <1>4. disk \in [Page -> Value] BY <1>1 DEF LogInv, WalTypeOK
  <1>5. \A p \in Page : Recent(s, p) = {} => disk[p] = Restored(s, disk, p)
    BY <1>2 DEF WalInv, DiskOK, DiskSays, Prefix
  <1> HIDE DEF s
  <1>6. UndoStops(s) = {} /\ \A p \in Page : Recovered(disk, s)[p] = Restored(s, disk, p)
    BY <1>3, <1>4, <1>5, RecoveryRestores
  <1>7. PICK k \in 1 .. Len(versions) : \A p \in Page : versions[k][p] = Restored(s, disk, p)
    BY <1>2 DEF WalInv, VersionsOK, VersionsSay, Prefix, s
  <1>8. versions[k] \in [Page -> Value]
    <2>1. versions \in Seq([Page -> Value]) BY <1>1 DEF LogInv, WalTypeOK
    <2>2. QED BY <2>1, ElementOfSeq
  <1>9. Recovered(disk, s) \in [Page -> Value] BY <1>3, <1>4, <1>6, RecoveredType
  <1>10. Recovered(disk, s) = versions[k] BY <1>6, <1>7, <1>8, <1>9
  <1>11. QED BY <1>2, <1>10 DEF RestoresCommitted, IfCrashedNow

\* What holds always, and what holds as long as every need is met.
WalSafe == kept \subseteq Needs /\ LogInv /\ (kept = Needs => WalInv)

LEMMA WalSafeNext ==
  ASSUME OldPages = Page, WalSafe, [WalNext]_walVars
  PROVE  WalSafe'
  <1>1. kept' \subseteq kept /\ kept \subseteq Needs BY KeptShrinks DEF WalSafe
  <1>2. LogInv' BY WalNextLogInv DEF WalSafe
  <1>3. ASSUME kept' = Needs PROVE WalInv'
    <2>1. kept = Needs BY <1>1, <1>3
    <2>2. QED BY <1>3, <2>1, WalNextInv DEF WalSafe
  <1>4. QED BY <1>1, <1>2, <1>3 DEF WalSafe

\* Recovery restores a committed state wherever the process dies (no
\* transaction in part or without its COMMIT, and none lost whose
\* wal_log_commit returned success) as long as flush_frame and wal_checkpoint
\* have met the needs of the log, whatever else flushes, fails and recovers.
THEOREM CrashSafeTheorem ==
  ASSUME OldPages = Page
  PROVE  WalSpec => []CrashSafe
  <1>1. WalInit => WalSafe
    <2>1. WalInit => kept = Needs BY DEF WalInit
    <2>2. QED BY <2>1, WalInitInv, WalInitLogInv DEF WalSafe
  <1>2. WalSafe /\ [WalNext]_walVars => WalSafe' BY WalSafeNext
  <1>3. WalSafe => CrashSafe BY WalInvSafe DEF WalSafe, CrashSafe
  <1>4. QED BY <1>1, <1>2, <1>3, PTL DEF WalSpec
=============================================================================
