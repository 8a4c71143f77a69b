----------------------------- MODULE ExampleApi ------------------------------
(***************************************************************************)
(* The example API server, src/example/main.go: what it answers for a MAC, *)
(* and which file it serves for a URL.  "This is effectively the same as   *)
(* Pixiecore in static mode, only it's talking to an API server instead."  *)
(* A file it cannot open makes a handler panic, and net/http drops that    *)
(* connection: for File this is a fetch that fails or is cut off.          *)
(***************************************************************************)
EXTENDS Sequences

CONSTANTS
    Host,        \* the API server's address, as Pixiecore's -api names it
    KernelFile,  \* -kernel
    InitrdFile,  \* -initrd
    Cmdline      \* -cmdline

\* fmt.Sprintf("http://%s/...", r.Host)
url(path) == "http://" \o Host \o path

\* Mutant: the two URLs are swapped.
API_swapped ==
    [status |-> "ok", json |-> TRUE,
     kernel |-> url("/initrd"), initrd |-> <<url("/kernel")>>, cmdline |-> Cmdline]

\* The handler API; the MAC in the URL is only logged.
API ==
    [status |-> "ok", json |-> TRUE,
     kernel |-> url("/kernel"), initrd |-> <<url("/initrd")>>, cmdline |-> Cmdline]

\* The handlers main registers, and the file each of them serves.
serves(u) ==
    CASE u = url("/kernel") -> KernelFile
      [] u = url("/initrd") -> InitrdFile
      [] OTHER -> "404"
=============================================================================
