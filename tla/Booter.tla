------------------------------- MODULE Booter -------------------------------
(***************************************************************************)
(* The Booter of src/api/api.go, in API mode (remoteBooter) and in static  *)
(* mode (staticBooter), and the encoding src/http/http.go puts around its  *)
(* file IDs.  Everything here is a function of its arguments; the state it *)
(* is called with belongs to NetBoot.                                      *)
(*                                                                         *)
(* An answer of the API server to one GET is a record                      *)
(*   status   "ok" for 200, "error" for anything else (a refused           *)
(*            connection included), "hang" when no answer ever comes;      *)
(*   json     the body decodes into the three fields;                      *)
(*   kernel, initrd, cmdline   the fields.                                 *)
(***************************************************************************)
EXTENDS Integers, Sequences

CONSTANTS
    Static,         \* Pixiecore was started with -kernel, not with -api
    AbsUrls,        \* strings url.Parse accepts as absolute URLs
    KernelPath,     \* -kernel
    InitrdPaths,    \* -initrd, split at the commas
    StaticCmdline,  \* -cmdline
    Itoa            \* strconv.Itoa on the indexes of InitrdPaths

\* Stands for the error File returns, so it is the name of nothing else.
NoFile == "no file"

ASSUME BooterAssumption ==
    /\ Static \in BOOLEAN
    /\ AbsUrls \subseteq STRING \ {NoFile}
    /\ KernelPath \in STRING \ {NoFile}
    /\ InitrdPaths \in Seq(STRING \ {NoFile})
    /\ StaticCmdline \in STRING
    /\ Itoa \in [1 .. Len(InitrdPaths) -> STRING \ {"kernel"}]
    /\ \A i, j \in DOMAIN Itoa : Itoa[i] = Itoa[j] => i = j

\* Any string.  (The prover does not know that a literal is one.)
Text == STRING \cup {"", "kernel"}

Answer == [status : {"ok", "error", "hang"}, json : BOOLEAN,
           kernel : Text, initrd : Seq(Text), cmdline : Text]

\* A file ID: key is the secretbox key it was sealed with (0 in static mode),
\* ref what it stands for, enc how often it has been base64-encoded.
Id == [enc : Nat, key : Nat, ref : Text]

-----------------------------------------------------------------------------
(* remoteBooter.                                                           *)

\* Mutant: a client without a Timeout.
clientGet_forever(a) == IF a.status = "hang" THEN {} ELSE {a}

\* b.client.Get: what it may return when the server's answer is a.  The client
\* has a Timeout, so a server that does not answer is an error.
clientGet(a) == IF a.status = "hang" THEN {[a EXCEPT !.status = "error"]} ELSE {a}

\* Mutant: the status code is not looked at.
getSpec_anyStatus(r) ==
    r.json /\ r.kernel \in AbsUrls /\ \A i \in DOMAIN r.initrd : r.initrd[i] \in AbsUrls

\* getSpec returns no error on the response r.
getSpec(r) ==
    /\ r.status = "ok"
    /\ r.json
    /\ r.kernel \in AbsUrls
    /\ \A i \in DOMAIN r.initrd : r.initrd[i] \in AbsUrls

\* secretbox.Seal and Open: only the key that sealed an ID opens it.
signURL(key, u) == [enc |-> 0, key |-> key, ref |-> u]

\* Mutant: the signature is not verified.
getURL_unverified(key, id) == IF id.enc = 0 THEN id.ref ELSE NoFile

getURL(key, id) == IF id.enc = 0 /\ id.key = key THEN id.ref ELSE NoFile

-----------------------------------------------------------------------------
(* staticBooter.                                                           *)

\* The spec field StaticBooter builds.
StaticBooter ==
    [kernel  |-> [enc |-> 0, key |-> 0, ref |-> "kernel"],
     initrd  |-> [i \in DOMAIN InitrdPaths |-> [enc |-> 0, key |-> 0, ref |-> Itoa[i]]],
     cmdline |-> StaticCmdline]

\* The path staticBooter.File opens for an ID.
staticFile(id) ==
    CASE id.enc = 0 /\ id.ref = "kernel" -> KernelPath
      [] id.enc = 0 /\ \E i \in DOMAIN Itoa : Itoa[i] = id.ref ->
            InitrdPaths[CHOOSE i \in DOMAIN Itoa : Itoa[i] = id.ref]
      [] OTHER -> NoFile

-----------------------------------------------------------------------------
(* The Booter interface.                                                   *)

\* ShouldBoot(hw) returns nil on the API server's response r.
ShouldBoot(r) == Static \/ getSpec(r)

\* Mutant: the initrds are prepended, not appended.
BootSpec_reversed(key, spec, r) ==
    IF Static
    THEN spec
    ELSE [kernel  |-> signURL(key, r.kernel),
          initrd  |-> [i \in DOMAIN r.initrd |-> signURL(key, r.initrd[Len(r.initrd) + 1 - i])],
          cmdline |-> r.cmdline]

\* BootSpec(hw) on a response r without error: in static mode a copy of the
\* booter's spec field, in API mode the signed URLs.
BootSpec(key, spec, r) ==
    IF Static
    THEN spec
    ELSE [kernel  |-> signURL(key, r.kernel),
          initrd  |-> [i \in DOMAIN r.initrd |-> signURL(key, r.initrd[i])],
          cmdline |-> r.cmdline]

\* Mutant: staticBooter.BootSpec returns its own slice of initrds.
specCopied_alias == FALSE

\* "append([]string(nil), b.spec.Initrd...)": the caller gets a slice of its own.
specCopied == TRUE

\* What File(id) gets its bytes from: a URL or a path, or NoFile for an error.
File(key, id) == IF Static THEN staticFile(id) ELSE getURL(key, id)

-----------------------------------------------------------------------------
(* base64.URLEncoding, as http.go uses it.                                 *)

\* Mutant: decoding where encoding is meant.
EncodeToString_swapped(id) == [id EXCEPT !.enc = @ - 1]

EncodeToString(id) == [id EXCEPT !.enc = @ + 1]
canDecode(id) == id.enc > 0
DecodeString(id) == [id EXCEPT !.enc = @ - 1]
=============================================================================
