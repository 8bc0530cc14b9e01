-------------------------------- MODULE Ota ---------------------------------
(***************************************************************************)
(* Firmware update: the agent's download (client_ota.c) composed with the  *)
(* plug's handlers that write the image to flash (Ayla_demo_ota.c).        *)
(*                                                                         *)
(* The service sends a command; the agent tells the plug, fetches the file *)
(* in chunks, and hands every packet to the plug, which skips to the image *)
(* for the partition that is not running and writes all but its signature. *)
(* When the checksum agrees it writes the signature.  The agent reports,   *)
(* and the plug resets.  Every step runs in the client task, so each is    *)
(* atomic; power may be cut between any two.                               *)
(*                                                                         *)
(* A byte is its position in the file.  Both images of the file have       *)
(* ImgLen bytes, the signature first.  The checksum is a sum, so it tells  *)
(* which bytes there are and not their order; two sums are taken to differ *)
(* when their bytes do.  The file is on the service's own server (source   *)
(* "local"); LAN updates and a redirected URL are left out.                *)
(***************************************************************************)
EXTENDS Integers, Sequences, FiniteSetsExt, Functions

CONSTANTS
    FileLen,        \* size of the file
    Offsets,        \* Offsets[i]: where the image of partition i begins in it
    ImgLen,         \* length of an image, with its signature
    SigLen,         \* length of the signature (8)
    HdrMin,         \* bytes of the file taken to hold its header (128)
    HdrBuf,         \* the header is read before so many bytes (1024)
    Packets,        \* the sizes a packet may have (up to STREAM_RX_SZ, 1000)
    ChunkLen,       \* OTA_GET_MCU_CHUNK_SIZE
    ChunkRetries,   \* OTA_CHUNK_RETRIES
    ConnRetries,    \* errors of a connection that are retried in silence
    Files,          \* what the service may send
    MaxOtas,        \* bound: update commands in a behaviour
    MaxFaults       \* bound: failed requests, writes and power cuts

ASSUME OtaAssumption ==
    /\ {FileLen, ImgLen, SigLen, ChunkLen} \subseteq Nat \ {0}
    /\ {HdrMin, HdrBuf, ChunkRetries, ConnRetries, MaxOtas, MaxFaults} \subseteq Nat
    /\ Packets \subseteq 1 .. FileLen
    /\ Offsets \in [1 .. 2 -> 0 .. FileLen - ImgLen] /\ SigLen < ImgLen
    /\ Files \subseteq {"good", "badsum", "badhdr", "module", "incomplete"}

VARIABLES
    a,              \* the agent: struct client_state, as far as updates need it
    p,              \* the plug's RAM: struct ayla_demo_ota, ayla_size, signature
    f,              \* the flash of the partition that is not running
    cur,            \* the partition that runs
    file,           \* what the service sends
    otas, faults    \* commands, and what went wrong, so far

vars == <<a, p, f, cur, file, otas, faults>>

Erased == -1
Unknown == -2       \* a byte that is not of the file, or not what was written
Byte == {Erased, Unknown} \cup 0 .. FileLen - 1
Body == 0 .. ImgLen - SigLen - 1

Offset == Offsets[3 - cur]
ImageBytes == Offset .. Offset + ImgLen - 1
Error == {"get", "connect", "type", "fatal", "state"}

-----------------------------------------------------------------------------
(* struct ota_state after client_ota_cleanup, and the client after a boot.  *)
NoOta == [in_prog |-> "none", off |-> 0, prev_off |-> 0, chunk_retries |-> 0,
          data_recvd |-> FALSE, http_status |-> "none"]

AgentUp == [conn |-> "event", busy |-> FALSE, left |-> 0, retries |-> 0,
            ota |-> NoOta, ota_status |-> "none", host |-> FALSE, uri |-> FALSE]

(* update_ota_exit clears the structure, but not ayla_size.                 *)
Zeroed(q) == [q EXCEPT !.recv = 0, !.hdr_count = 0, !.got_hdr = FALSE,
                       !.remain = 0, !.sig_flg = FALSE, !.sig_cnt = 0,
                       !.save_done = FALSE]

PlugUp == [recv |-> 0, hdr_count |-> 0, got_hdr |-> FALSE, remain |-> 0,
           sig_flg |-> FALSE, sig_cnt |-> 0, save_done |-> FALSE,
           size |-> 0, sig |-> [i \in 1 .. SigLen |-> Unknown]]

Blank == [image |-> [i \in Body |-> Erased], sign |-> <<>>]

Init ==
    /\ a = AgentUp /\ p = PlugUp /\ f = Blank
    /\ cur \in 1 .. 2 /\ file \in Files
    /\ otas = 0 /\ faults = 0

OtaState ==
    [in_prog: {"none", "prog", "status"}, off: 0 .. FileLen,
     prev_off: 0 .. FileLen, chunk_retries: 0 .. ChunkRetries + 1,
     data_recvd: BOOLEAN, http_status: {"none", "ok", "err"}]

ClientState ==
    [conn: {"event", "otaget", "otaput", "stsput", "retry", "down", "assert"},
     busy: BOOLEAN, left: 0 .. ChunkLen, retries: 0 .. ConnRetries + 1,
     ota: OtaState, ota_status: Error \cup {"none"}, host: BOOLEAN, uri: BOOLEAN]

(* What updates that failed leave in hdr_count, remain and size adds up.    *)
DemoOta ==
    [recv: 0 .. FileLen, hdr_count: Nat, got_hdr: BOOLEAN, remain: Int,
     sig_flg: BOOLEAN, sig_cnt: 0 .. SigLen, save_done: BOOLEAN,
     size: Nat, sig: [1 .. SigLen -> Byte]]

Flash == [image: [Body -> Byte], sign: {<<>>} \cup [1 .. SigLen -> Byte]]

\* The types of the variables.
OtaTypeOK ==
    /\ a \in ClientState /\ p \in DemoOta /\ f \in Flash
    /\ cur \in 1 .. 2 /\ file \in Files
    /\ otas \in 0 .. MaxOtas /\ faults \in 0 .. MaxFaults

-----------------------------------------------------------------------------
(* demo_ota_save for the n bytes of the file from position at on.  s is the *)
(* plug, the flash and the status returned; fault is what fails, if any.    *)
-----------------------------------------------------------------------------
Exit(s) == [s EXCEPT !.p = Zeroed(@), !.status = "fatal"]

(* Byte i of the packet; what lies before the packet is unknown.            *)
Src(at, i) == IF i < 0 THEN Unknown ELSE at + i

(* Write k bytes from byte i of the packet on after the ayla_size that were *)
(* written.  Flash that is not erased does not take a byte.                 *)
Write(s, at, i, k, fault) ==
    IF fault = "flash" THEN Exit(s)
    ELSE LET new(x) == Src(at, i + x - s.p.size)
         IN  [s EXCEPT
                !.f.image = [x \in Body |->
                    IF x \notin s.p.size .. s.p.size + k - 1 THEN @[x]
                    ELSE IF @[x] \in {Erased, new(x)} THEN new(x) ELSE Unknown],
                !.p.size = @ + k]

(* The first cnt bytes of the signature that are missing, from byte i on.   *)
TakeSig(q, at, i, cnt) ==
    [q EXCEPT !.sig = [x \in 1 .. SigLen |->
                          IF x \in q.sig_cnt + 1 .. q.sig_cnt + cnt
                          THEN Src(at, i + x - q.sig_cnt - 1) ELSE @[x]],
              !.sig_cnt = @ + cnt]

(* verify_ota_checksum over ayla_size bytes and the signature.              *)
ChecksumOK(s) ==
    /\ file = "good"
    /\ s.p.size = ImgLen - SigLen
    /\ Range(s.f.image) \cup Range(s.p.sig) = ImageBytes

\* Mutant: the image is signed before it is verified.
FinishUnchecked(s, fault) ==
    LET done == [s EXCEPT !.p.save_done = TRUE, !.f.sign = s.p.sig]
    IN  IF ~ChecksumOK(s) \/ fault = "sign" THEN [done EXCEPT !.status = "fatal"]
        ELSE done

(* The whole image is there: sign it, or erase its first sector.            *)
Finish(s, fault) ==
    LET done == [s EXCEPT !.p.save_done = TRUE]
    IN  IF ~ChecksumOK(s)
        THEN [done EXCEPT !.status = "fatal",
                          !.f = [image |-> [@.image EXCEPT ![0] = Erased],
                                 sign |-> <<>>]]
        ELSE IF fault = "sign" THEN [done EXCEPT !.status = "fatal"]
        ELSE [done EXCEPT !.f.sign = s.p.sig]

(* The packet in which the image begins.                                    *)
SaveFirst(s, at, n, fault) ==
    LET cnt == s.p.recv - Offset
        w == [s EXCEPT !.p = TakeSig([@ EXCEPT !.sig_flg = TRUE, !.sig_cnt = 0],
                                     at, n - cnt, Min({cnt, SigLen}))]
        r == Write(w, at, n - cnt + SigLen, cnt - SigLen, fault)
    IN  IF cnt <= SigLen THEN w
        ELSE IF r.status # "done" THEN r
        ELSE [r EXCEPT !.p.remain = @ - r.p.size]

(* A packet that ends the signature, or only goes on with it.               *)
SaveSig(s, at, n, fault) ==
    LET need == SigLen - s.p.sig_cnt
        w == [s EXCEPT !.p = TakeSig(@, at, 0, Min({n, need}))]
        r == [w EXCEPT !.p.remain = @ - (n - need)]
    IN  IF n <= need THEN w
        ELSE Write(r, at, need, n - need + Min({0, r.p.remain}), fault)

(* Any other packet of the image; the last one ends it.                     *)
SaveBody(s, at, n, fault) ==
    LET r == [s EXCEPT !.p.remain = @ - n]
        w == Write(r, at, 0, n + Min({0, r.p.remain}), fault)
    IN  IF w.status = "done" /\ r.p.remain <= 0 THEN Finish(w, fault) ELSE w

SaveImage(s, at, n, fault) ==
    IF s.p.remain <= 0 \/ s.p.recv <= Offset THEN s
    ELSE IF ~s.p.sig_flg THEN SaveFirst(s, at, n, fault)
    ELSE IF s.p.sig_cnt < SigLen THEN SaveSig(s, at, n, fault)
    ELSE SaveBody(s, at, n, fault)

(* The header names the image; the flash for it is erased.  The buffer has  *)
(* the header when hdr_count, which is where this packet goes, is right.    *)
ReadHeader(s) == [s EXCEPT !.p.remain = ImgLen - SigLen, !.p.got_hdr = TRUE,
                           !.f = Blank]

Save(at, n, fault) ==
    LET s == [p |-> [p EXCEPT !.recv = @ + n], f |-> f, status |-> "done"]
    IN  IF fault = "malloc" THEN [s EXCEPT !.p = p, !.status = "state"]
        ELSE IF s.p.recv < HdrMin THEN [s EXCEPT !.p.hdr_count = @ + n]
        ELSE IF s.p.recv >= HdrBuf \/ p.got_hdr THEN SaveImage(s, at, n, fault)
        ELSE IF file = "badhdr" \/ p.hdr_count # p.recv THEN Exit(s)
        ELSE SaveImage(ReadHeader(s), at, n, fault)

-----------------------------------------------------------------------------
(* Handlers of the agent, on its record.                                    *)
-----------------------------------------------------------------------------
Quiet(b) == [b EXCEPT !.busy = FALSE, !.left = 0]

\* Mutant: the status is stored, and the update goes on.
SetStatusOnly(b, sts) ==
    IF b.ota.http_status # "none" THEN b ELSE [b EXCEPT !.ota.http_status = sts]

(* client_ota_set_sts_rpt                                                   *)
SetStatus(b, sts) ==
    IF b.ota.http_status # "none" THEN b
    ELSE [b EXCEPT !.ota.http_status = sts, !.ota.in_prog = "status"]

(* ada_ota_report_int                                                       *)
Report(b, status) ==
    LET r == [b EXCEPT !.ota_status = status]
    IN  IF status # "none" /\ b.ota_status # "none" THEN b
        ELSE IF b.ota.in_prog = "none" THEN r
        ELSE SetStatus(IF b.ota.in_prog = "prog" THEN Quiet(r) ELSE r,
                       IF status = "none" THEN "ok" ELSE "err")

RecvDone(b) == [Quiet(b) EXCEPT !.retries = 0, !.conn = "event"]
NextAgain(b) == [Quiet(b) EXCEPT !.conn = "event"]

(* client_err_cb for an error that is retried after a wait, client_retry.   *)
Retry(b) ==
    LET r == IF b.conn = "otaget" /\ b.retries > ConnRetries
             THEN Report(b, "connect") ELSE b
    IN  [Quiet(r) EXCEPT !.conn = "retry",
                         !.retries = Min({@ + 1, ConnRetries + 1})]

(* client_recv_ota_get when the response has ended.                         *)
RecvEnd(b) ==
    LET r == IF b.ota.data_recvd THEN b ELSE Report(b, "get")
    IN  IF b.ota.off >= FileLen \/ ~b.ota.data_recvd
        THEN RecvDone(SetStatus(r, "ok")) ELSE RecvDone(b)

\* Mutants: the count of an earlier update is kept; its save_done is kept.
NotifiedKeepsCount(q) == [q EXCEPT !.save_done = FALSE]
NotifiedKeepsDone(q) == [q EXCEPT !.recv = 0]

(* demo_ota_notify and, in it, ada_ota_start.                               *)
Notified(q) == [q EXCEPT !.recv = 0, !.save_done = FALSE]
Started(b) == [b EXCEPT !.ota.in_prog = "prog", !.ota.off = 0,
                        !.ota.http_status = "none", !.ota_status = "none"]

(* The bytes that client_ota_fetch_image asks for.                          *)
RangeLen(b) == Min({ChunkLen, FileLen - b.ota.off})

(* client_ota_fetch_image                                                   *)
FetchImage(b) ==
    LET again == IF b.ota.off = b.ota.prev_off THEN b.ota.chunk_retries + 1 ELSE 0
        r == [b EXCEPT !.conn = "otaget", !.ota.data_recvd = FALSE,
                       !.ota.chunk_retries = again]
    IN  IF again > ChunkRetries THEN Report(r, "get")
        ELSE IF ~b.uri THEN [r EXCEPT !.conn = "assert"]
        ELSE [r EXCEPT !.ota.prev_off = b.ota.off, !.busy = TRUE,
                       !.left = RangeLen(b)]

-----------------------------------------------------------------------------
(* The steps.                                                               *)
-----------------------------------------------------------------------------
Fault == faults < MaxFaults /\ faults' = faults + 1
Idle == a.conn = "event" /\ ~a.busy

(* The response to a GET of commands has PUT /ota.json.  Its type may be    *)
(* one that has no handler; if it lacks what is parsed after the type, the  *)
(* error is reported, and the plug is notified all the same.                *)
Command ==
    /\ Idle /\ a.ota.in_prog = "none" /\ a.ota_status = "none"
    /\ otas < MaxOtas /\ otas' = otas + 1
    /\ \E k \in Files :
        LET parsed == IF k = "incomplete" THEN a
                      ELSE [a EXCEPT !.host = TRUE, !.uri = TRUE]
        IN  /\ file' = k
            /\ \/ /\ k = "module"
                  /\ a' = Report(SetStatus(parsed, "err"), "type")
                  /\ UNCHANGED p
               \/ /\ k # "module"
                  /\ a' = Started(parsed)
                  /\ p' = Notified(p)
    /\ UNCHANGED <<f, cur, faults>>

(* client_next_step, for the steps that concern updates, in their order.    *)
PutOtaStatus ==
    /\ Idle /\ a.ota_status # "none"
    /\ a' = [a EXCEPT !.conn = "otaput", !.busy = TRUE]
    /\ UNCHANGED <<p, f, cur, file, otas, faults>>

PutCmdSts ==
    /\ Idle /\ a.ota_status = "none" /\ a.ota.in_prog = "status"
    /\ a' = [a EXCEPT !.conn = "stsput", !.busy = TRUE]
    /\ UNCHANGED <<p, f, cur, file, otas, faults>>

Fetch ==
    /\ Idle /\ a.ota_status = "none" /\ a.ota.in_prog = "prog" /\ a.host
    /\ a' = FetchImage(a)
    /\ UNCHANGED <<p, f, cur, file, otas, faults>>

(* client_recv_ota_get, with a packet of n bytes.                           *)
Recv(n, fault) ==
    LET s == Save(a.ota.off, n, fault)
        got == [a EXCEPT !.ota.off = @ + n, !.ota.data_recvd = TRUE, !.left = @ - n]
        failed == [a EXCEPT !.ota.data_recvd = TRUE, !.uri = FALSE]
    IN  /\ a.conn = "otaget" /\ a.busy /\ n <= a.left
        /\ p' = s.p /\ f' = s.f
        /\ a' = IF s.status # "done" THEN Retry(Report(failed, s.status))
                ELSE IF n = a.left THEN RecvEnd(got) ELSE got
        /\ UNCHANGED <<cur, file, otas>>

RecvOtaGet == UNCHANGED faults /\ \E n \in Packets : Recv(n, "none")

SaveFails ==
    /\ Fault
    /\ \E n \in Packets, fault \in {"malloc", "flash", "sign"} :
        /\ fault = "malloc" => p.recv = 0
        /\ Recv(n, fault)

(* The device starts, with the image that was signed if one was.            *)
Boot ==
    /\ a' = AgentUp /\ p' = PlugUp
    /\ IF f.sign # <<>> THEN cur' = 3 - cur /\ f' = Blank ELSE UNCHANGED <<cur, f>>
    /\ UNCHANGED <<file, otas>>

PowerCut == Fault /\ Boot

RecvOtaPut ==
    /\ a.conn = "otaput" /\ a.busy
    /\ a' = RecvDone([a EXCEPT !.ota_status = "none"])
    /\ UNCHANGED <<p, f, cur, file, otas, faults>>

(* client_recv_sts_put: the plug is told if the update was fetched, and     *)
(* resets, or reports that it did not get the image.                        *)
PlugResets ==
    /\ a.conn = "stsput" /\ a.busy
    /\ a.ota.http_status = "ok" /\ p.save_done
    /\ Boot /\ UNCHANGED faults

RecvStsPut ==
    /\ a.conn = "stsput" /\ a.busy
    /\ LET b == [a EXCEPT !.ota = NoOta, !.uri = FALSE]
       IN  \/ a.ota.http_status = "err" /\ a' = RecvDone(b)
           \/ a.ota.http_status = "ok" /\ ~p.save_done /\ a' = RecvDone(Report(b, "fatal"))
    /\ UNCHANGED <<p, f, cur, file, otas, faults>>

(* client_err_cb.  The connection closes before an answer, ...              *)
Closed ==
    /\ a.busy /\ ~a.ota.data_recvd
    /\ Fault /\ a' = NextAgain(a)
    /\ UNCHANGED <<p, f, cur, file, otas>>

(* ... or while the answer is received, which is taken for its end, ...     *)
ClosedEarly ==
    /\ a.busy /\ a.conn = "otaget"
    /\ Fault /\ a' = RecvEnd(a)
    /\ UNCHANGED <<p, f, cur, file, otas>>

(* ... the server answers with an error, ...                                *)
BadStatus ==
    /\ a.busy /\ (a.conn = "otaget" => ~a.ota.data_recvd)
    /\ Fault
    /\ a' = NextAgain(CASE a.conn = "otaget" -> Report(a, "get")
                        [] a.conn = "otaput" -> Report(a, "none")
                        [] a.conn = "stsput" -> SetStatus(a, "ok"))
    /\ UNCHANGED <<p, f, cur, file, otas>>

(* ... or there is no connection, or no answer in time.                     *)
ConnFails ==
    /\ a.busy /\ Fault /\ a' = Retry(a)
    /\ UNCHANGED <<p, f, cur, file, otas>>

(* client_timeout                                                           *)
Timeout ==
    /\ a.conn = "retry" /\ a' = [a EXCEPT !.conn = "event"]
    /\ UNCHANGED <<p, f, cur, file, otas, faults>>

(* client_down_locked and ada_client_up: the update itself is kept.         *)
Down ==
    /\ a.conn \notin {"down", "assert"} /\ Fault
    /\ a' = [Quiet(a) EXCEPT !.conn = "down"]
    /\ UNCHANGED <<p, f, cur, file, otas>>

Up ==
    /\ a.conn = "down" /\ a' = [a EXCEPT !.conn = "event", !.retries = 0]
    /\ UNCHANGED <<p, f, cur, file, otas, faults>>

Next ==
    \/ Command \/ PutOtaStatus \/ PutCmdSts \/ Fetch
    \/ RecvOtaGet \/ SaveFails \/ RecvOtaPut \/ RecvStsPut \/ PlugResets
    \/ Closed \/ ClosedEarly \/ BadStatus \/ ConnFails
    \/ Timeout \/ Down \/ Up \/ PowerCut

Spec == Init /\ [][Next]_vars

(* The client task runs, timers fire, requests that do not fail are         *)
(* answered, and Wi-Fi comes back.                                          *)
FairSpec ==
    /\ Spec
    /\ WF_vars(PutOtaStatus \/ PutCmdSts \/ Fetch)
    /\ WF_vars(RecvOtaGet) /\ WF_vars(RecvOtaPut) /\ WF_vars(RecvStsPut \/ PlugResets)
    /\ WF_vars(Timeout) /\ WF_vars(Up)

-----------------------------------------------------------------------------
(* While the file is fetched the agent's offset, where it resumes after an  *)
(* error, is the number of bytes the plug has counted, by which it finds    *)
(* the image: no packet is lost to it or given to it twice, whatever        *)
(* request or earlier update failed (client_ota_save, demo_ota_notify).     *)
InStep == a.ota.in_prog = "prog" => p.recv = a.ota.off

(* A partition is signed, and so will be booted, only when it holds its     *)
(* whole image with every byte in its place, though the checksum does not   *)
(* see the order of bytes, and whenever power is cut ("not write signature  *)
(* first for power down protection").                                       *)
SignedIsWhole ==
    f.sign # <<>> =>
        /\ f.sign = [i \in 1 .. SigLen |-> Offset + i - 1]
        /\ f.image = [i \in Body |-> Offset + SigLen + i]

(* The plug resets the device only into the new image: save_done, which is  *)
(* set before the checksum is verified, has not outlived a failed update.   *)
ResetsIntoImage == [][PlugResets => f.sign # <<>>]_vars

(* An update comes to an end, after which commands are accepted again.      *)
OtaEnds == (a.ota.in_prog # "none") ~> (a.ota.in_prog = "none")
=============================================================================
