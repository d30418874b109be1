----------------------------- MODULE BlobStream -----------------------------
(***************************************************************************)
(* The V7 file format and the three programs that run over it in pieces:   *)
(* the upload flow that seals a file chunk by chunk, the download flow     *)
(* that opens it from whatever fragments the network delivers, and the     *)
(* page a share recipient downloads with.                                  *)
(*                                                                         *)
(* A blob is a sequence of units: three of header (version and IV, KEM     *)
(* part, key commitment), per chunk a length, a nonce, the ciphertext and  *)
(* its tag, and two of footer (the HMAC).  A unit carries the key it was   *)
(* made under, so that "AES-GCM opens it" and "the HMAC matches" are       *)
(* comparisons; a damaged unit carries the key of no file.                 *)
(***************************************************************************)
EXTENDS Maps, Sequences, SequencesExt

CONSTANTS
    Chunk,          \* V7_ENCRYPT_CHUNK_SIZE, in units of plaintext
    IndexLimit,     \* 2^32: the chunk indices that fit a u32
    FileSizes,      \* plaintext lengths of the stored file
    MaxPushes       \* bound: pushes of one upload

ASSUME BlobAssumption ==
    /\ Chunk \in Nat \ {0} /\ IndexLimit \in Nat \ {0} /\ FileSizes \subseteq Nat
    /\ MaxPushes \in Nat /\ None # "u"

HeaderLen == 3                                        \* V7_HEADER_MIN
FooterLen == 2                                        \* V7_FOOTER_LEN
FrameOverhead == 3                                    \* V7_FRAME_OVERHEAD

VARIABLES
    src,        \* what the provider or the relay delivers
    junk,       \* the number read where the length of a frame should be and is not
    pos,        \* units of src delivered so far
    dl,         \* the reader: a ByoDownloadFlow, or the recipient's page
    up          \* a ByoUploadFlow and the blob it has emitted

blobVars == <<src, junk, pos, dl, up>>
-----------------------------------------------------------------------------
(* Sealing. *)
Unit(f, k, i, j, n, v) == [f |-> f, k |-> k, i |-> i, j |-> j, n |-> n, v |-> v]

\* encrypt_file_v7_init(): a fresh content key, committed to in the header.
Header(f) == [j \in 1..HeaderLen |-> Unit(f, "hdr", 0, j, 0, None)]

\* encrypt_file_v7_chunk(): one tag over the chunk, under the nonce of its index.
Sealed(f, i, p) ==
    [j \in 1..(Len(p) + 1) |-> IF j <= Len(p) THEN Unit(f, "ct", i, j, Len(p), p[j])
                               ELSE Unit(f, "tag", i, j, Len(p), None)]

\* The frame V7StreamEncryptor::push returns: the length covers nonce and ciphertext.
Frame(f, i, p) == <<Unit(f, "len", i, 1, Len(p) + 2, None), Unit(f, "nonce", i, 1, 0, None)>>
                  \o Sealed(f, i, p)

\* compute_v7_hmac(): over every index and ciphertext, in order.
Footer(f, mac) == [j \in 1..FooterLen |-> Unit(f, "mac", 0, j, 0, mac)]

ChunksOf(p) ==
    LET n == (Len(p) + Chunk - 1) \div Chunk
    IN  [c \in 1..n |-> SubSeq(p, (c - 1) * Chunk + 1, IF c = n THEN Len(p) ELSE c * Chunk)]

\* The frames of the first c chunks, and what the HMAC covers of them.
Framed(f, chunks) ==
    LET at[c \in 0..Len(chunks)] == IF c = 0 THEN <<>> ELSE at[c - 1] \o Frame(f, c - 1, chunks[c])
    IN  at
Mac(f, chunks) == [c \in 1..Len(chunks) |-> <<c - 1, Sealed(f, c - 1, chunks[c])>>]

\* encrypt_file_v7(), and encrypt_manifest_v7(), whose loop emits one empty chunk for an empty input.
EncryptFile(f, chunks) ==
    Header(f) \o Framed(f, chunks)[Len(chunks)] \o Footer(f, Mac(f, chunks))
EncryptManifest(f, p) == EncryptFile(f, IF p = <<>> THEN <<p>> ELSE ChunksOf(p))

\* v7_cipher_size()
CipherSize(n) == IF n = 0 THEN HeaderLen + FooterLen
                 ELSE HeaderLen + ((n + Chunk - 1) \div Chunk) * FrameOverhead + n + FooterLen
-----------------------------------------------------------------------------
(* Opening. *)

\* AES-GCM opens a ciphertext that is whole, of this key and of this nonce's index.
AeadOpensAnyIndex(key, i, ct) ==
    /\ ct # <<>>
    /\ \A j \in 1..Len(ct) : ct[j].f = key /\ ct[j].j = j /\ ct[j].n = Len(ct) - 1
                             /\ ct[j].k = IF j = Len(ct) THEN "tag" ELSE "ct"
AeadOpens(key, i, ct) ==
    /\ ct # <<>>
    /\ \A j \in 1..Len(ct) : /\ ct[j].f = key /\ ct[j].i = i /\ ct[j].j = j
                             /\ ct[j].n = Len(ct) - 1
                             /\ ct[j].k = IF j = Len(ct) THEN "tag" ELSE "ct"
Opened(ct) == [j \in 1..(Len(ct) - 1) |-> ct[j].v]

\* decrypt_file_v7_init(): decapsulates the key and compares its commitment.
HeaderKey(h) == IF \A j \in 1..HeaderLen : h[j] = Unit(h[1].f, "hdr", 0, j, 0, None)
                THEN h[1].f ELSE None

\* V7ShareDecryptor::new(): the key comes with the link; version, IV and commitment are read.
ShareHeaderKey(h, key) ==
    IF \A j \in {1, HeaderLen} : h[j] = Unit(key, "hdr", 0, j, 0, None) THEN key ELSE None

LengthAt(s, p) == IF s[p].k = "len" /\ s[p].f # "x" THEN s[p].n ELSE junk

Decryptor(key) == [key |-> key, idx |-> 0, buf |-> <<>>, mac |-> <<>>]

\* checked_add(1): the index after i, if it fits.
NextIndexWraps(i) == (i + 1) % IndexLimit
NextIndexUnchecked(i) == i + 1
NextIndex(i) == IF i + 1 < IndexLimit THEN i + 1 ELSE None

\* One turn of the loop of push(): the frame at d.pos, if it is there whole.
OpenFrame(d) ==
    LET n  == LengthAt(d.buf, d.pos + 1)
        ct == SubSeq(d.buf, d.pos + 3, d.pos + 1 + n)
        hashed == [d EXCEPT !.mac = Append(@, <<d.idx, ct>>)]
    IN  IF d.err \/ Len(d.buf) - d.pos < 1 THEN d
        ELSE IF n < 1 THEN [d EXCEPT !.err = TRUE]
        ELSE IF Len(d.buf) - d.pos < 1 + n THEN d
        ELSE IF ~AeadOpens(d.key, d.idx, ct) \/ NextIndex(d.idx) = None
             THEN [hashed EXCEPT !.err = TRUE]
        ELSE [hashed EXCEPT !.pos = @ + 1 + n, !.idx = NextIndex(@), !.out = @ \o Opened(ct)]

\* V7StreamDecryptor::push() and V7ShareDecryptor::push().  On an error the plaintext of
\* the call is lost and the buffer is not drained.
DecryptorPush(d, bytes) ==
    LET b == d.buf \o bytes
        start == [key |-> d.key, idx |-> d.idx, mac |-> d.mac, buf |-> b,
                  pos |-> 0, out |-> <<>>, err |-> FALSE]
        at[k \in 0..(Len(b) \div 2 + 1)] == IF k = 0 THEN start ELSE OpenFrame(at[k - 1])
        r == at[Len(b) \div 2 + 1]
    IN  [err |-> r.err, out |-> IF r.err THEN <<>> ELSE r.out,
         dec |-> [key |-> d.key, idx |-> r.idx, mac |-> r.mac,
                  buf |-> IF r.err THEN b ELSE SubSeq(b, r.pos + 1, Len(b))]]

\* finalize(): nothing left over, and the footer is the HMAC of what was hashed.
FooterMatchesAny(d, footer) == d.buf = <<>> /\ Len(footer) = FooterLen
FooterMatches(d, footer) ==
    /\ d.buf = <<>>
    /\ Len(footer) = FooterLen
    /\ \A j \in 1..FooterLen :
         footer[j].f = d.key /\ footer[j].k = "mac" /\ footer[j].j = j /\ footer[j].v = d.mac

\* FooterTrimmer::push(): holds the last units back, for they may be the footer.
TrimOneLess(tail, bytes) ==
    LET all == tail \o bytes
        cut == SatSub(Len(all), FooterLen - 1)
    IN  [out |-> SubSeq(all, 1, cut), tail |-> SubSeq(all, cut + 1, Len(all))]
Trim(tail, bytes) ==
    LET all == tail \o bytes
        cut == SatSub(Len(all), FooterLen)
    IN  [out |-> SubSeq(all, 1, cut), tail |-> SubSeq(all, cut + 1, Len(all))]

\* decrypt_file_v7(): the whole blob at once, with the nonces that are on the wire.  (A length
\* below that of a nonce makes it panic, which is no answer either.)
DecryptStep(s, key, r) ==
    LET n  == LengthAt(s, r.pos + 1)
        ct == SubSeq(s, r.pos + 3, r.pos + 1 + n)
    IN  IF r.err \/ r.pos + FooterLen >= Len(s) THEN r
        ELSE IF r.pos + 1 + n > Len(s) \/ n < 1 THEN [r EXCEPT !.err = TRUE]
        ELSE IF ~(/\ s[r.pos + 2].f = key /\ s[r.pos + 2].k = "nonce"
                  /\ AeadOpens(key, s[r.pos + 2].i, ct)) THEN [r EXCEPT !.err = TRUE]
        ELSE [pos |-> r.pos + 1 + n, err |-> FALSE, out |-> r.out \o Opened(ct),
              mac |-> Append(r.mac, <<Len(r.mac), ct>>)]
DecryptFile(s) ==
    LET key == IF Len(s) < HeaderLen THEN None ELSE HeaderKey(s)
        start == [pos |-> HeaderLen, err |-> FALSE, out |-> <<>>, mac |-> <<>>]
        at[k \in 0..(Len(s) \div 2 + 1)] == IF k = 0 THEN start ELSE DecryptStep(s, key, at[k - 1])
        r == at[Len(s) \div 2 + 1]
        footer == SubSeq(s, r.pos + 1, Len(s))
    IN  IF key = None \/ r.err \/ ~FooterMatches([key |-> key, buf |-> <<>>, mac |-> r.mac], footer)
        THEN None ELSE r.out
-----------------------------------------------------------------------------
(* What may be delivered: a stored file, whole, cut short, with one unit   *)
(* damaged or a frame moved, or torn between two versions by a replacement *)
(* in the middle of a ranged download.                                     *)
PlainOf(n) == [j \in 1..n |-> j]
BlobOf(f, n) == EncryptFile(f, ChunksOf(PlainOf(n)))
OtherSize == Chunk + 1

Damaged(s) == {[s EXCEPT ![k].f = "x"] : k \in 1..Len(s)}
Cut(s) == {SubSeq(s, 1, k) : k \in 0..Len(s)}
Torn(s, t) == {SubSeq(s, 1, k) \o SubSeq(t, k + 1, Len(t)) : k \in {j \in 1..Len(s) : j <= Len(t)}}
Moved(f, chunks) ==
    LET fr(c) == Frame(f, c - 1, chunks[c])
    IN  IF Len(chunks) < 2 THEN {}
        ELSE {Header(f) \o body \o Footer(f, Mac(f, chunks)) :
                 body \in {fr(2) \o fr(1), fr(1) \o fr(1), fr(2), fr(1), fr(1) \o fr(2) \o fr(2)}}
Aligned(n) == Cut(BlobOf("a", n)) \cup Moved("a", ChunksOf(PlainOf(n)))
              \cup {EncryptManifest("a", PlainOf(n))}
Misread(n) == Damaged(BlobOf("a", n)) \cup Torn(BlobOf("a", n), BlobOf("b", OtherSize))

-----------------------------------------------------------------------------
(* The download flow. *)
Idle == [st |-> "idle", buf |-> <<>>, tail |-> <<>>, dec |-> None, out |-> <<>>]

\* ByoDownloadFlow::new(), and the page's buildDecryptStream().
DlOpen(s, g, page) ==
    /\ dl.st = "idle" /\ up.st = "idle"
    /\ src' = s /\ junk' = g /\ pos' = 0
    /\ dl' = [Idle EXCEPT !.st = IF page THEN "page" ELSE "header"]
    /\ UNCHANGED up

Arrived(n) == SubSeq(src, pos + 1, pos + n)

\* The body's bytes, through the trimmer and into the decryptor.
BodyPush(d, bytes) ==
    LET t == Trim(d.tail, bytes)
        r == DecryptorPush(d.dec, t.out)
    IN  IF r.err THEN [d EXCEPT !.st = "failed"]
        ELSE [d EXCEPT !.tail = t.tail, !.dec = r.dec, !.out = @ \o r.out]

\* ByoDownloadFlow::push()
DlPush(n) ==
    LET bytes == Arrived(n)
        b == dl.buf \o bytes
        key == HeaderKey(b)
    IN  /\ dl.st \in {"header", "body"} /\ pos + n <= Len(src)
        /\ pos' = pos + n
        /\ dl' = IF dl.st = "body" THEN BodyPush(dl, bytes)
                 ELSE IF Len(b) < HeaderLen THEN [dl EXCEPT !.buf = b]
                 ELSE IF key = None THEN [dl EXCEPT !.st = "failed"]
                 ELSE BodyPush([dl EXCEPT !.st = "body", !.buf = <<>>, !.dec = Decryptor(key)],
                               SubSeq(b, HeaderLen + 1, Len(b)))
        /\ UNCHANGED <<src, junk, up>>

\* ByoDownloadFlow::finalize(), at the end of the response.
DlFinalize ==
    /\ dl.st \in {"header", "body"} /\ pos = Len(src)
    /\ dl' = [dl EXCEPT !.st = IF @ = "body" /\ Len(dl.tail) >= FooterLen
                                  /\ FooterMatches(dl.dec, dl.tail)
                               THEN "accepted" ELSE "failed"]
    /\ UNCHANGED <<src, junk, pos, up>>
-----------------------------------------------------------------------------
(* The share recipient's page: buildDecryptStream() of ShareRecipient.     *)

\* Phase 1: what came after the header waits in tail.
PageHeader(n) ==
    LET b == dl.buf \o Arrived(n)
        key == ShareHeaderKey(b, "a")
    IN  /\ dl.st = "page" /\ pos + n <= Len(src)
        /\ pos' = pos + n
        /\ dl' = IF Len(b) < HeaderLen THEN [dl EXCEPT !.buf = b]
                 ELSE IF key = None THEN [dl EXCEPT !.st = "failed"]
                 ELSE [dl EXCEPT !.st = "pageBody", !.buf = <<>>, !.dec = Decryptor(key),
                                 !.tail = SubSeq(b, HeaderLen + 1, Len(b))]
        /\ UNCHANGED <<src, junk, up>>

\* Phase 2: byoShareStreamPush() answers {error}, which is no Uint8Array: nothing is yielded.
PagePush(n) ==
    LET t == Trim(dl.tail, Arrived(n))
        r == DecryptorPush(dl.dec, t.out)
    IN  /\ dl.st = "pageBody" /\ pos + n <= Len(src)
        /\ pos' = pos + n
        /\ dl' = [dl EXCEPT !.tail = t.tail, !.dec = r.dec, !.out = @ \o r.out]
        /\ UNCHANGED <<src, junk, up>>

\* The end: the answer of byoShareStreamClose() is not looked at.
PageEnd ==
    /\ dl.st \in {"page", "pageBody"} /\ pos = Len(src)
    /\ dl' = [dl EXCEPT !.st = IF @ = "pageBody" /\ Len(dl.tail) >= FooterLen
                               THEN "saved" ELSE "failed"]
    /\ UNCHANGED <<src, junk, pos, up>>
-----------------------------------------------------------------------------
(* The upload flow. *)
UpIdle == [st |-> "idle", declared |-> 0, idx |-> 0, last |-> FALSE, mac |-> <<>>,
           blob |-> <<>>, plain |-> <<>>, sealed |-> <<>>, pushes |-> 0]

\* ByoUploadFlow::new()
UpOpen(n) ==
    /\ up.st = "idle" /\ dl.st = "idle"
    /\ up' = [UpIdle EXCEPT !.st = "open", !.declared = n, !.last = (n = 0), !.blob = Header("u")]
    /\ UNCHANGED <<src, junk, pos, dl>>

\* V7StreamEncryptor::push(): the chunk is sealed before the index is stepped.
EncryptorPush(u, p) ==
    LET ct == Sealed("u", u.idx, p)
        done == [u EXCEPT !.mac = Append(@, <<u.idx, ct>>), !.sealed = Append(@, u.idx)]
    IN  IF NextIndex(u.idx) = None THEN [done EXCEPT !.st = "failed"]
        ELSE [done EXCEPT !.idx = NextIndex(@), !.blob = @ \o Frame("u", u.idx, p),
                          !.plain = @ \o p]

\* push_chunk(): a non-final chunk is exactly Chunk long, and nothing follows the last one.
ChunkAllowedAny(u, n, last) == ~u.last
ChunkAllowed(u, n, last) == (last \/ n = Chunk) /\ ~u.last

\* The worker drops the session when a push is refused or fails.
UpPush(n, last) ==
    /\ up.st = "open" /\ up.pushes < MaxPushes
    /\ up' = IF ChunkAllowed(up, n, last)
             THEN EncryptorPush([up EXCEPT !.last = last, !.pushes = @ + 1],
                                [j \in 1..n |-> Len(up.plain) + j])
             ELSE [up EXCEPT !.st = "failed"]
    /\ UNCHANGED <<src, junk, pos, dl>>

\* finalize()
UpFinalize ==
    /\ up.st = "open"
    /\ up' = IF up.last THEN [up EXCEPT !.st = "done", !.blob = @ \o Footer("u", up.mac)]
             ELSE [up EXCEPT !.st = "failed"]
    /\ UNCHANGED <<src, junk, pos, dl>>
-----------------------------------------------------------------------------
BlobInit == src = <<>> /\ junk = 0 /\ pos = 0 /\ dl = Idle /\ up = UpIdle

\* The callers slice a file to the chunk size, so no push is longer than a chunk.
BlobNext ==
    \/ \E n \in FileSizes, page \in BOOLEAN : \E s \in Aligned(n) : DlOpen(s, 0, page)
    \/ \E n \in FileSizes, g \in 0..3, page \in BOOLEAN : \E s \in Misread(n) : DlOpen(s, g, page)
    \/ \E n \in 1..(Len(src) - pos) : DlPush(n)
    \/ \E n \in 1..(Len(src) - pos) : PageHeader(n)
    \/ \E n \in 1..(Len(src) - pos) : PagePush(n)
    \/ DlFinalize \/ PageEnd
    \/ \E n \in FileSizes : UpOpen(n)
    \/ \E n \in 0..Chunk, last \in BOOLEAN : UpPush(n, last)
    \/ UpFinalize

BlobSpec == BlobInit /\ [][BlobNext]_blobVars
-----------------------------------------------------------------------------
(* Properties. *)
\* The flows, and that a chunk index fits its 32 bits on both sides.
BlobTypeOK ==
    /\ pos \in 0..Len(src) /\ junk \in 0..3
    /\ dl.st \in {"idle", "header", "body", "page", "pageBody", "accepted", "saved", "failed"}
    /\ dl.dec # None => dl.dec.idx \in 0..(IndexLimit - 1) /\ Len(dl.tail) <= Len(src)
    /\ up.st \in {"idle", "open", "done", "failed"} /\ up.idx \in 0..(IndexLimit - 1)

\* The files stored under a key, and that s is one of their blobs but for the nonces,
\* which the streaming decryptor derives and does not read, and the lengths, which are not
\* sealed (a wrong one makes the tag fail).
PlainOptions(key) == {PlainOf(n) : n \in IF key = "b" THEN {OtherSize} ELSE FileSizes}
IsBlobOf(s, key, p) ==
    \E t \in {EncryptFile(key, ChunksOf(p)), EncryptManifest(key, p)} :
        Len(s) = Len(t) /\ \A j \in 1..Len(t) : t[j].k \notin {"nonce", "len"} => s[j] = t[j]

\* Whatever was delivered and however it was cut up, the bytes a reader has handed on are
\* the beginning of one stored file: frames are never reordered, repeated, skipped or mixed
\* (V7StreamDecryptor::push, SECURITY.md section 6).
HandsOnAPrefix ==
    dl.dec # None => \E p \in PlainOptions(dl.dec.key) : IsPrefix(dl.out, p)

\* A download that finalize() accepts is complete: no truncation, not even at a frame
\* boundary, passes the footer.
AcceptedIsWhole ==
    dl.st = "accepted" =>
        dl.out \in PlainOptions(dl.dec.key) /\ IsBlobOf(src, dl.dec.key, dl.out)

\* Fragmentation is invisible: when everything has arrived the flow has not failed on a blob
\* that the one-shot decrypt_file_v7() opens, and hands on the same bytes.
AgreesWithOneShot ==
    dl.st \in {"header", "body", "accepted", "failed"} /\ pos = Len(src) =>
        LET whole == DecryptFile(src)
        IN  whole # None => dl.st \in {"body", "accepted"} /\ dl.out = whole

\* A finalized upload opens, as a whole, to the chunks that were pushed, and when the
\* caller pushed what it declared the blob has the length v7_cipher_size() promised the
\* provider.
UploadOpens ==
    up.st = "done" =>
        /\ DecryptFile(up.blob) = up.plain
        /\ Len(up.plain) = up.declared /\ up.blob[Len(up.blob) - FooterLen].j # 1
             => Len(up.blob) = CipherSize(up.declared)

\* No chunk index, hence no AES-GCM nonce, seals two chunks of one file, the 2^32nd included.
NonceOnce == \A a, b \in 1..Len(up.sealed) : up.sealed[a] = up.sealed[b] => a = b

\* SECURITY.md: "Callers must treat a failed finalize() as a download failure".  What the
\* share recipient's page reports as saved is the whole file.
SavedIsWhole == dl.st = "saved" => dl.out \in PlainOptions("a") /\ DecryptFile(src) = dl.out

\* What the streams of wire_format.rs promise for any fragments of any blob: only a prefix of
\* the file is handed on, only a whole file is accepted, what is uploaded opens, and no nonce
\* is used twice.
BlobInv == BlobTypeOK /\ HandsOnAPrefix /\ AcceptedIsWhole /\ UploadOpens /\ NonceOnce
=============================================================================
