---------------------------- MODULE BuildRecipe -----------------------------
(***************************************************************************)
(* A recipe: when it is admitted for an intent, which sources its build    *)
(* tree is made of, which programs it may run, and what a build sees of    *)
(* the host.  Pure operators.                                              *)
(***************************************************************************)
EXTENDS Naturals, Sequences, FiniteSets, SequencesExt

CONSTANTS
  None, Malformed,
  InstallTree,    \* the output "@install-tree"
  KernelImage,    \* the one output of the fixed kernel adapter
  KernelRepo, PushRepo,   \* the two repositories of the kernel adapter
  Escaping        \* a path that is absolute or climbs out of its root

CrateKind == {"crates-io", "crates.io", "crate"}
SourceKind == {"git", "archive", "local"} \cup CrateKind

(* Paths are sequences of components.  Where a crate of the closure is *)
(* unpacked:                                                           *)
VendorDir(name, version) == <<".corinth-vendor", name, version>>

(***************************************************************************)
(* One locked source.  url is a record [https, crate, path, absolute]: the *)
(* kind of address it is, or None.                                         *)
(***************************************************************************)
Unset(s, fields) == \A f \in fields : s[f] = None

SourceValid(s) ==
  CASE s.kind = "git" ->
         /\ s.url # None /\ s.url.https /\ s.revision \notin {None, Malformed}
         /\ Unset(s, {"checksum", "package", "version"})
    [] s.kind = "archive" ->
         /\ s.url # None /\ s.url.https /\ s.checksum \notin {None, Malformed}
         /\ Unset(s, {"revision", "package", "version"})
    [] s.kind \in CrateKind ->
         /\ \A f \in {"package", "version", "checksum"} : s[f] \notin {None, Malformed}
         /\ s.revision = None
         /\ s.url # None => s.url.crate = <<s.package, s.version>>
    [] s.kind = "local" ->
         /\ s.url # None /\ s.url.absolute /\ ~s.submodules
         /\ Unset(s, {"revision", "checksum", "package", "version"})
    [] OTHER -> FALSE

(* A destination is a plain relative path outside target, .git and the *)
(* install tree.                                                       *)
DestinationValid(d) ==
  /\ d[1] \notin {"/", "target", ".git", ".corinth-install"}
  /\ ".." \notin Range(d)

Destinations(r) == {n \in 1 .. Len(r.source) : r.source[n].destination # None}

SourcesValid(r) ==
  /\ r.source # <<>>
  /\ \A n \in 1 .. Len(r.source) : SourceValid(r.source[n])
  /\ \A n \in Destinations(r) : DestinationValid(r.source[n].destination)
  /\ \A m, n \in Destinations(r) :
       m # n => r.source[m].destination # r.source[n].destination

(***************************************************************************)
(* The Cargo closure: the lock file names the root once, without a         *)
(* checksum, and otherwise registry crates, exactly the declared ones; and *)
(* every one of them is a locked source with a vendor directory.           *)
(***************************************************************************)
LockMatches(closure, root) ==
  LET lock == closure.lock
      local == SelectSeq(lock.package, LAMBDA p : p.source = None)
      crates == SelectSeq(lock.package, LAMBDA p : p.source # None)
      Identity(p) == <<p.name, p.version>>
      Named(p) == [name |-> p.name, version |-> p.version, checksum |-> p.checksum]
      locked == {Named(p) : p \in Range(crates)}
  IN /\ lock.version \in 3 .. 4 /\ lock.package # <<>>
     /\ Len(local) = 1
     /\ Identity(local[1]) = root /\ local[1].checksum = None
     /\ \A p \in Range(crates) :
          /\ Identity(p) # root /\ p.source = "crates.io"
          /\ \A v \in {p.name, p.version, p.checksum} : v \notin {None, Malformed}
     /\ Cardinality(locked) = Len(crates)
     /\ locked = closure.packages

CrateSources(r) == SelectSeq(r.source, LAMBDA s : s.kind \in CrateKind)

ClosureValid(r) ==
  IF r.closure = None THEN CrateSources(r) = <<>>
  ELSE /\ r.system = "cargo" /\ ~r.network
       /\ \A c \in Range(r.commands) : c.locked
       /\ LockMatches(r.closure, <<r.name, r.version>>)
       /\ Cardinality({n \in 1 .. Len(CrateSources(r)) :
            LET s == CrateSources(r)[n] IN
            s.package = r.name /\ s.version = r.version /\ s.destination = None}) = 1
       /\ Len(CrateSources(r)) = Cardinality(r.closure.packages) + 1
       /\ \A p \in r.closure.packages : \E s \in Range(CrateSources(r)) :
            /\ s.package = p.name /\ s.version = p.version /\ s.checksum = p.checksum
            /\ s.destination = VendorDir(p.name, p.version)

(***************************************************************************)
(* The kernel adapter: one name, two repositories in order.  A "custom"    *)
(* kernel recipe gets the destination of the second source added.          *)
(***************************************************************************)
IsKernel(r) ==
  /\ r.name = "arach-kernel" /\ Len(r.source) = 2
  /\ \A n \in 1 .. 2 : r.source[n].kind = "git"
  /\ r.source[1].repo = KernelRepo /\ r.source[2].repo = PushRepo
  /\ r.source[1].destination = None
  /\ \/ r.system = "arach-kernel" /\ r.source[2].destination = <<"sources", "push">>
     \/ r.system = "custom" /\ r.source[2].destination = None

MaterializedSources(r) ==
  IF IsKernel(r) /\ r.system = "custom"
  THEN [r.source EXCEPT ![2].destination = <<"sources", "push">>] ELSE r.source

BuildSystem == {"cargo", "c", "fortran", "idris2", "agda", "make", "cmake", "meson",
                "custom", "cosmic", "arach-kernel"}

AdapterValid(r, i) ==
  IF r.system = "cosmic"
  THEN [n \in 1 .. Len(r.commands) |-> r.commands[n].text] = <<"just build", "just install">>
       /\ r.outputs = <<InstallTree>>
  ELSE IF IsKernel(r)
  THEN /\ ~r.network /\ r.outputs = <<KernelImage>>
       /\ [n \in 1 .. Len(r.commands) |-> r.commands[n].text] = <<"cargo build-kernel-package">>
  ELSE /\ r.name # "arach-kernel" /\ r.system # "arach-kernel"
       /\ i.scope \in {"driver", "firmware"} => r.outputs = <<InstallTree>>
       /\ Escaping \notin Range(r.outputs)

NoDuplicates(q) == Cardinality(Range(q)) = Len(q)

(* validate_recipe: the recipe is the one the intent names, for this target. *)
RecipeValid(r, i, arch) ==
  /\ r.format = 1 /\ r.described
  /\ r.name = i.name /\ r.version = i.version /\ arch \in r.architectures
  /\ r.scope = i.scope /\ r.authority = i.repository
  /\ SourcesValid(r)
  /\ r.system \in BuildSystem
  /\ ClosureValid(r)
  /\ \A q \in {r.depends} \cup Range(r.runtime) : NoDuplicates(q) /\ Malformed \notin Range(q)
  /\ r.commands # <<>> /\ r.outputs # <<>>
  /\ AdapterValid(r, i)

(***************************************************************************)
(* Which recipe file is read for a package: the one under base/, else one  *)
(* met while walking the tree (in the order of the directories).           *)
(***************************************************************************)
FindRecipe(repository, name) ==
  IF repository.base[name] # None THEN {repository.base[name]} ELSE repository.elsewhere[name]

(* What the sources are recorded as having been. *)
Revision(r) ==
  LET revisions == {n \in 1 .. Len(r.source) :
                      r.source[n].revision # None \/ r.source[n].version # None}
  IN IF Cardinality(revisions) = 1
     THEN LET s == r.source[CHOOSE n \in revisions : TRUE] IN
          IF s.revision # None THEN s.revision ELSE s.version
     ELSE <<"source-lock", r.lock>>

(***************************************************************************)
(* The programs a recipe may start.  A command with a shell character or a *)
(* quote is refused; the fixed adapters start their own programs.          *)
(***************************************************************************)
Program(system) ==
  CASE system = "custom"  -> {"cargo", "rustc", "make", "cmake", "meson", "ninja", "cc", "gcc",
                              "clang", "gfortran", "flang", "idris2", "agda"}
    [] system = "cargo"   -> {"cargo", "rustc"}
    [] system = "make"    -> {"make"}
    [] system = "cmake"   -> {"cmake", "make"}
    [] system = "meson"   -> {"meson", "ninja"}
    [] system = "c"       -> {"cc", "gcc", "clang", "make"}
    [] system = "fortran" -> {"gfortran", "flang", "make"}
    [] system \in {"idris2", "agda"} -> {system}
    [] OTHER -> {}

CommandAllowed(r, c) == ~c.shell /\ c.program \in Program(r.system)

(* The phases of a build, in order.  The kernel adapter builds the two      *)
(* images that the kernel then takes in; the workspace adapter builds, and  *)
(* installs into a fresh tree with its greeter configuration.               *)
KernelPhases == <<"push", "probe", "kernel">>
CosmicPhases == <<"build", "install">>

Phases(r) ==
  CASE r.system = "cosmic" -> CosmicPhases
    [] r.system # "cosmic" /\ IsKernel(r) -> KernelPhases
    [] OTHER -> [n \in 1 .. Len(r.commands) |-> r.commands[n].text]

(***************************************************************************)
(* Which fetches are tried at all; net is the permission of the caller.    *)
(* What is fetched must then be the locked revision or have the locked     *)
(* checksum; a local directory is taken as it is.                          *)
(***************************************************************************)
GitFetch(s, net) == s.url.https /\ s.revision # Malformed /\ net
LocalFetch(s, host) == s.url.absolute /\ s.base \in host.directories
CrateFetch(s, net) == net /\ (s.url # None => s.url.crate = <<s.package, s.version>>)
ArchiveFetch(s, net) == net /\ s.url.https /\ s.checksum # Malformed

Fetchable(s, net, host) ==
  CASE s.kind = "git" -> GitFetch(s, net)
    [] s.kind = "local" -> LocalFetch(s, host)
    [] s.kind \in CrateKind -> CrateFetch(s, net)
    [] s.kind = "archive" -> ArchiveFetch(s, net)

(***************************************************************************)
(* What a build sees: /usr and chosen parts of /etc, read only; the        *)
(* dependencies of the build, read only; the toolchains and caches of the  *)
(* user where the caller allows them, read only; its own tree, writable.   *)
(***************************************************************************)
ReadOnly(path) == [path |-> path, writable |-> FALSE]

FixedMounts(host, depRoot) ==
  {ReadOnly("/usr")} \cup {ReadOnly(p) : p \in host.etc}
  \cup IF depRoot = None THEN {} ELSE {ReadOnly(depRoot)}

HostMounts(host, hostTools) ==
  IF hostTools THEN {ReadOnly(p) : p \in host.tools \cup host.caches} ELSE {}

SearchPath(host, hostTools, depRoot) ==
  (IF hostTools THEN host.bin \o <<"/usr/local/bin">> ELSE <<>>)
  \o (IF depRoot = None THEN <<>> ELSE <<"/corinth-build/usr/bin", "/corinth-build/usr/sbin">>)
  \o <<"/usr/bin">>

Environment(network, hostTools, depRoot) ==
  {"HOME", "CARGO_HOME", "PATH", "LANG", "TZ", "SOURCE_DATE_EPOCH"}
  \cup (IF depRoot = None THEN {} ELSE {"CORINTH_BUILD_ROOT", "PKG_CONFIG_SYSROOT_DIR", "CPATH"})
  \cup (IF network THEN {} ELSE {"CARGO_NET_OFFLINE"})
  \cup (IF hostTools THEN {"RUSTUP_HOME", "RUSTUP_TOOLCHAIN"} ELSE {})

Boundary(tree, network, hostTools, depRoot, host) ==
  [mounts |-> FixedMounts(host, depRoot) \cup HostMounts(host, hostTools)
                \cup {[path |-> tree, writable |-> TRUE]},
   network |-> network,
   path |-> SearchPath(host, hostTools, depRoot),
   environment |-> Environment(network, hostTools, depRoot)]

(* The build may start only with a private dependency root and a trusted *)
(* sandbox program, and for a CPU whose features the target can have.    *)
SandboxReady(depRoot, host, compiler, Supports) ==
  /\ host.sandbox
  /\ depRoot # None => host.private[depRoot]
  /\ compiler.arch # "unknown" /\ compiler.features \subseteq Supports[compiler.arch]
=============================================================================
