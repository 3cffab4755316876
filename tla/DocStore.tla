------------------------------ MODULE DocStore ------------------------------
(***************************************************************************)
(* Documents: the table of kvs_doc.c with its two levels of chains, the    *)
(* DOC commands of handle_parsed_command, and a second table that is given *)
(* the logged commands later or is loaded from a dump, in which a document *)
(* is one line of text.                                                    *)
(*                                                                         *)
(* A value is the sequence of its words; a word is a plain one or a pair   *)
(* of a field and a word, which reads field=word.                          *)
(***************************************************************************)
EXTENDS Integers, SequencesExt

CONSTANTS
    DocKeys,
    PlainWords,     \* the words without an equals sign
    DocInputs,      \* the triples of a key, a field and a value that DOCSET writes
    DocHash,        \* doc_hash before the reduction to a bucket
    DocBuckets,     \* KVS_DOC_BUCKETS
    FieldBuckets,   \* KVS_DOC_FIELD_BUCKETS
    MaxDocBuckets,  \* the limit of doc_rehash
    MaxDocWrites,   \* bound: commands sent
    MaxDocLag       \* bound: commands logged and not replayed

VARIABLES
    docs,      \* global_doc
    docLog,    \* commands logged and not replayed by the second table
    docCopy,   \* the second table
    mangled,   \* history: documents whose text a dump cannot give back
    docSent    \* commands sent

docVars == <<docs, docLog, docCopy, mangled, docSent>>

Bucket(name, n) == DocHash[name] % n

\* kvs_doc_create
DocCreate == [size |-> DocBuckets, count |-> 0, chain |-> [i \in 0..(DocBuckets - 1) |-> << >>]]

\* The place of a name in a chain of documents or of fields, 0 if it is not there.
PlaceOf(chain, name) == SelectInSeq(chain, LAMBDA e : e.name = name)

\* doc_find: the bucket of the key, and the document's place in it.
DocFind(t, k) == LET b == Bucket(k, t.size) IN [b |-> b, at |-> PlaceOf(t.chain[b], k)]
\* field_find
FieldFind(d, f) == LET b == Bucket(f, FieldBuckets) IN [b |-> b, at |-> PlaceOf(d.fields[b], f)]

\* Mutant: a document keeps the bucket it had.
DocRehashKeeps(t) ==
    LET n == 2 * t.size
    IN  [t EXCEPT !.size = n,
                  !.chain = [i \in 0..(n - 1) |-> IF i < t.size THEN Reverse(t.chain[i]) ELSE << >>]]
\* doc_rehash: every document, in the order of the old chains, to the head of its new one.
DocRehash(t) ==
    LET n == 2 * t.size
        all == FlattenSeq([i \in 1..t.size |-> t.chain[i - 1]])
    IN  [t EXCEPT !.size = n,
                  !.chain = [i \in 0..(n - 1) |-> Reverse(SelectSeq(all, LAMBDA d : Bucket(d.name, n) = i))]]

NewDoc(k) == [name |-> k, count |-> 0, fields |-> [i \in 0..(FieldBuckets - 1) |-> << >>]]

\* doc_create_entry; short names the allocation that fails.
DocCreateEntry(t, k, short) ==
    LET full == t.count >= t.size
        r == IF full THEN DocRehash(t) ELSE t
    IN  IF full /\ (2 * t.size > MaxDocBuckets \/ short = "table") THEN [t |-> t, ok |-> FALSE]
        ELSE IF short = "doc" THEN [t |-> r, ok |-> FALSE]
        ELSE [t |-> [r EXCEPT !.count = @ + 1, !.chain[Bucket(k, r.size)] = <<NewDoc(k)>> \o @],
              ok |-> TRUE]

\* The field's value replaced, or the field added at the head of its chain.
FieldSet(d, f, v) ==
    LET p == FieldFind(d, f)
    IN  IF p.at # 0 THEN [d EXCEPT !.fields[p.b][p.at].value = v]
        ELSE [d EXCEPT !.count = @ + 1, !.fields[p.b] = <<[name |-> f, value |-> v]>> \o @]

\* kvs_doc_set: a document made for a field that then finds no memory stays.
DocSet(t, k, f, v, short) ==
    LET c == IF DocFind(t, k).at = 0 THEN DocCreateEntry(t, k, short) ELSE [t |-> t, ok |-> TRUE]
        p == DocFind(c.t, k)
    IN  IF ~c.ok \/ short = "field" THEN [t |-> c.t, rc |-> -1]
        ELSE [t |-> [c.t EXCEPT !.chain[p.b][p.at] = FieldSet(@, f, v)], rc |-> 0]

\* kvs_doc_del_field: the last field gone, the document stays.
DocDelField(t, k, f) ==
    LET p == DocFind(t, k)
        q == FieldFind(t.chain[p.b][p.at], f)
    IN  IF p.at = 0 \/ q.at = 0 THEN [t |-> t, rc |-> 1]
        ELSE [t |-> [t EXCEPT !.chain[p.b][p.at].fields[q.b] = RemoveAt(@, q.at),
                              !.chain[p.b][p.at].count = @ - 1],
              rc |-> 0]

\* Mutant: the count of documents is not lowered.
DocDelMiscounts(t, k) ==
    LET p == DocFind(t, k)
    IN  IF p.at = 0 THEN [t |-> t, rc |-> 1]
        ELSE [t |-> [t EXCEPT !.chain[p.b] = RemoveAt(@, p.at)], rc |-> 0]
\* kvs_doc_del
DocDel(t, k) ==
    LET p == DocFind(t, k)
    IN  IF p.at = 0 THEN [t |-> t, rc |-> 1]
        ELSE [t |-> [t EXCEPT !.chain[p.b] = RemoveAt(@, p.at), !.count = @ - 1], rc |-> 0]

\* The fields of a document as the walks of DOCGETALL and of the dump meet them.
WalkFields(d) == FlattenSeq([i \in 1..FieldBuckets |-> d.fields[i - 1]])
WalkDocs(t) == FlattenSeq([i \in 1..t.size |-> t.chain[i - 1]])

\* DOCGETALL: the count looked up, then a walk over the whole table.
DocGetAll(t, k) ==
    LET p == DocFind(t, k)
        i == PlaceOf(WalkDocs(t), k)
    IN  IF p.at = 0 \/ t.chain[p.b][p.at].count = 0 THEN << >> ELSE WalkFields(WalkDocs(t)[i])

\* A command on a table: the table it leaves and what it returns.
DocRun(t, c, short) ==
    CASE c.op = "DOCSET" -> DocSet(t, c.key, c.field, c.value, short)
      [] c.op = "DOCDEL" -> DocDelField(t, c.key, c.field)
      [] c.op = "DOCDROP" -> DocDel(t, c.key)

-----------------------------------------------------------------------------
(* The dump of a document and its load                                     *)

\* kvs_dump_to_fd: name=value of every field, separated by blanks.  The name and the
\* first word of the value become one word.
DocText(d) ==
    FlattenSeq([i \in DOMAIN WalkFields(d) |->
                  LET e == WalkFields(d)[i]
                  IN  IF e.value = << >> THEN <<<<e.name, << >>>>>>
                      ELSE <<<<e.name, <<Head(e.value)>>>>>> \o
                           [j \in 1..(Len(e.value) - 1) |->
                              LET w == e.value[j + 1] IN IF w \in PlainWords THEN w ELSE <<w[1], <<w[2]>>>>]])

\* Mutant: only the first word is read.
DocLoadFirst(t, k, text) ==
    IF text = << >> THEN t ELSE DocSet(t, k, Head(text)[1], Head(text)[2], "none").t
\* replay_dump_file: each word with an equals sign is a field; the others are dropped.
DocLoad(t, k, text) ==
    FoldLeft(LAMBDA u, w : DocSet(u, k, w[1], w[2], "none").t,
             t, SelectSeq(text, LAMBDA w : w \notin PlainWords))

DocReload(t) == FoldLeft(LAMBDA u, d : DocLoad(u, d.name, DocText(d)), DocCreate, WalkDocs(t))

-----------------------------------------------------------------------------
DocInit ==
    /\ docs = DocCreate /\ docCopy = DocCreate
    /\ docLog = << >> /\ mangled = {} /\ docSent = 0

\* DOCSET, DOCDEL and DOCDROP of a client: logged and sent on when they returned 0.
DocWrite(c, short) ==
    /\ docSent < MaxDocWrites /\ Len(docLog) < MaxDocLag
    /\ docSent' = docSent + 1
    /\ LET r == DocRun(docs, c, short)
       IN  /\ docs' = r.t
           /\ docLog' = IF r.rc = 0 THEN Append(docLog, c) ELSE docLog
    /\ UNCHANGED <<docCopy, mangled>>

\* The same commands with from_replication set.
DocReplay ==
    /\ docLog # << >>
    /\ docCopy' = DocRun(docCopy, Head(docLog), "none").t
    /\ docLog' = Tail(docLog)
    /\ UNCHANGED <<docs, mangled, docSent>>

\* A dump is written and the second table loaded from it: the log starts anew.
DocDumpAndLoad ==
    /\ docCopy' = DocReload(docs)
    /\ docLog' = << >>
    /\ mangled' = {d.name : d \in {x \in Range(WalkDocs(docs)) :
                     \E e \in Range(WalkFields(x)) : Len(e.value) > 1}}
    /\ UNCHANGED <<docs, docSent>>

DocCommands ==
    {[op |-> "DOCSET", key |-> i[1], field |-> i[2], value |-> i[3]] : i \in DocInputs}
    \cup {[op |-> "DOCDEL", key |-> i[1], field |-> i[2], value |-> << >>] : i \in DocInputs}
    \cup {[op |-> "DOCDROP", key |-> k, field |-> k, value |-> << >>] : k \in DocKeys}

DocNext ==
    \/ \E c \in DocCommands, short \in {"none", "table", "doc", "field"} :
         (c.op = "DOCSET" \/ short = "none") /\ DocWrite(c, short)
    \/ DocReplay
    \/ DocDumpAndLoad

DocSpec == DocInit /\ [][DocNext]_docVars

-----------------------------------------------------------------------------
(* Properties                                                              *)

\* A table is well formed: names once and in the chain that doc_hash gives for the
\* present size, counts exact, the load factor of the outer table at most one.
TableSound(t) ==
    /\ t.count = Len(WalkDocs(t)) /\ t.count <= t.size
    /\ \A b \in 0..(t.size - 1), i \in 1..t.count :
         i \in DOMAIN t.chain[b] =>
           LET d == t.chain[b][i]
           IN  /\ Bucket(d.name, t.size) = b /\ PlaceOf(t.chain[b], d.name) = i
               /\ d.count = Len(WalkFields(d))
               /\ \A j \in 0..(FieldBuckets - 1) : \A e \in DOMAIN d.fields[j] :
                    /\ Bucket(d.fields[j][e].name, FieldBuckets) = j
                    /\ PlaceOf(d.fields[j], d.fields[j][e].name) = e

(* The document table of the server and of the copy stay well formed while  *)
(* the table grows, allocations fail and documents are dropped (kvs_doc.c). *)
DocsSound == TableSound(docs) /\ TableSound(docCopy)

\* What DOCGET and DOCGETALL show of a document.
FieldsOf(t, k) == Range(DocGetAll(t, k))

(* A replica or a restarted server that has replayed the log has every      *)
(* field of every document and no other, also after a DOCSET that failed    *)
(* half-way and after a load from a dump.  Left out are the documents with  *)
(* a value of several words, which the dump's text does not give back (the  *)
(* DOC commands, kvs_dump_to_fd, replay_dump_file).                        *)
DocsFollow ==
    docLog = << >> => \A k \in DocKeys \ mangled : FieldsOf(docs, k) = FieldsOf(docCopy, k)
=============================================================================
