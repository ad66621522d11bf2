----------------------------- MODULE MCProvision -----------------------------
(***************************************************************************)
(* A host with two devices: a network card whose driver shares its source  *)
(* lock with a firmware package and has a second version with one more     *)
(* source, and a command line tool built from a crate and its closure.     *)
(***************************************************************************)
EXTENDS ProvisionedBuild

MCSupports == [x86 |-> {"aes", "avx"}, arm |-> {"neon"}, unknown |-> {}]
MCCpu == [arch |-> "x86", model |-> "m1", features |-> {"aes"}]
MCHost == [sandbox |-> TRUE, directories |-> {}, etc |-> {"/etc/ssl"}, tools |-> {"~/.rustup"},
           caches |-> {"~/.cargo/registry"}, bin |-> <<"~/.cargo/bin">>,
           private |-> [d \in {"build-dependencies"} |-> TRUE]]

Src(kind, url, revision, checksum, package, version, destination, repo) ==
  [base |-> repo, kind |-> kind, url |-> url, revision |-> revision, checksum |-> checksum,
   package |-> package, version |-> version, destination |-> destination,
   submodules |-> FALSE, repo |-> repo]
Https == [https |-> TRUE, crate |-> None, absolute |-> FALSE]

g1 == Src("git", Https, "rev1", None, None, None, None, "nic.git")
p1 == Src("archive", Https, None, "sum1", None, None, <<"patches">>, "patches")
c0 == Src("crate", None, None, "sum2", "tool", "1", None, "tool.crate")
c1 == Src("crate", None, None, "sum3", "dep", "1", <<".corinth-vendor", "dep", "1">>, "dep.crate")

Command(text, program) == [text |-> text, program |-> program, shell |-> FALSE, locked |-> TRUE]
Dep == [name |-> "dep", version |-> "1", checksum |-> "sum3"]
Closure ==
  [lock |-> [version |-> 4, package |->
     <<[name |-> "tool", version |-> "1", source |-> None, checksum |-> None],
       [name |-> "dep", version |-> "1", source |-> "crates.io", checksum |-> "sum3"]>>],
   packages |-> {Dep}]

Rec(name, version, scope, source, lock, system, commands, closure) ==
  [format |-> 1, described |-> TRUE, name |-> name, version |-> version,
   architectures |-> {"x86"}, scope |-> scope, authority |-> ScopeAuthority[scope],
   source |-> source, lock |-> lock, system |-> system, closure |-> closure,
   depends |-> <<>>, runtime |-> <<>>, commands |-> commands, outputs |-> <<InstallTree>>,
   network |-> FALSE, sandboxed |-> TRUE, reproducible |-> TRUE,
   metadata |-> <<"meta", name, version>>, artifact |-> <<"digest", name, version>>]

nic1 == Rec("nic", "1", "driver", <<g1>>, "L1", "make", <<Command("make", "make")>>, None)
nic2 == Rec("nic", "2", "driver", <<g1, p1>>, "L2", "make", <<Command("make", "make")>>, None)
fw1  == Rec("fw", "1", "firmware", <<g1>>, "L1", "custom",
            <<Command("make", "make"), Command("cargo --locked", "cargo")>>, None)
tool1 == Rec("tool", "1", "system", <<c0, c1>>, "L3", "cargo",
             <<Command("cargo --locked", "cargo")>>, Closure)
edited == [nic1 EXCEPT !.metadata = <<"meta", "edited", "1">>]

(* The kernel: a "custom" recipe of the fixed adapter. *)
k0 == Src("git", Https, "rev2", None, None, None, None, KernelRepo)
k1 == Src("git", Https, "rev3", None, None, None, None, PushRepo)
kernel == [Rec("arach-kernel", "1", "system", <<k0, k1>>, "L4", "custom",
               <<Command("cargo build-kernel-package", "cargo")>>, None)
           EXCEPT !.outputs = <<KernelImage>>]

MCRecipe == {nic1, nic2, fw1, tool1, edited, kernel}

(* Two checkouts at the same place always meet, in their .git. *)
MCOverlap == {{CacheKey(k0), CacheKey(k1)}}
MCAdmitted == {tool1}
MCRepository == [base |-> [p \in {"fw", "nic", "tool", "arach-kernel"} |->
                               IF p = "fw" THEN fw1 ELSE None],
                 elsewhere |-> [p \in {"fw", "nic", "tool", "arach-kernel"} |->
                                    {r \in MCRecipe \ {fw1} : r.name = p}]]

Intent(r) ==
  [verb |-> "install", name |-> r.name, version |-> r.version, scope |-> r.scope,
   repository |-> r.authority, metadata |-> r.metadata, artifact |-> r.artifact, lock |-> r.lock]

Policy == [arch |-> "x86", required |-> {"aes"}, allowed |-> {"aes", "avx"}]
Doc(id, trusted, recipes) ==
  [id |-> id, key |-> "k", digest |-> <<"profile", id>>, trusted |-> trusted, abi |-> <<1, 3>>,
   compiler |-> Policy, policy |-> "health", package |-> recipes]
Plan(device, id, package) ==
  [schema |-> TRUE, device |-> device, profile |-> id, key |-> "k", digest |-> <<"profile", id>>,
   abi |-> 2, compiler |-> MCCpu, policy |-> "health", package |-> package]

Base == <<Intent(nic1), Intent(fw1)>>
Newer == <<Intent(nic2)>>
Forged == <<[Intent(nic1) EXCEPT !.artifact = Other], Intent(fw1)>>
d1 == Doc("p1", TRUE, Base)
d2 == Doc("p2", TRUE, Newer)
d3 == Doc("p3", FALSE, Forged)
d4 == Doc("p4", TRUE, <<Intent(kernel)>>)

Entry(r, sequence, digest) ==
  [name |-> r.name, version |-> r.version, release |-> 1, sequence |-> sequence, graph |-> {},
   scope |-> r.scope, repository |-> r.authority, metadata |-> r.metadata, artifact |-> digest,
   lock |-> r.lock, https |-> TRUE, fits |-> TRUE]
Index(trusted, repository, packages) ==
  [format |-> 2, trusted |-> trusted, key |-> "k", signer |-> "k", repository |-> repository,
   packages |-> packages]
devices == Index(TRUE, "arach-hardware",
  <<Entry(nic1, 1, nic1.artifact), Entry(nic2, 2, nic2.artifact), Entry(fw1, 1, fw1.artifact)>>)
cards == Index(TRUE, "arach-hardware", <<Entry(nic1, 1, nic1.artifact)>>)
tools == Index(TRUE, "arach-native", <<Entry(tool1, 1, tool1.artifact)>>)
bogus == Index(FALSE, "arach-native", <<Entry(tool1, 1, Other)>>)

Sub(plans, docs, index) == [plans |-> plans, docs |-> docs, index |-> index]
MCSubmission ==
  {Sub(<<Plan("dev1", "p1", Base)>>, <<d1>>, None),
   Sub(<<Plan("dev1", "p1", Base), Plan("dev2", "p2", Newer)>>, <<d1, d2>>, None),
   Sub(<<Plan("dev2", "p2", Newer)>>, <<d1, d2>>, None),
   Sub(<<Plan("dev4", "p4", <<Intent(kernel)>>)>>, <<d4>>, None),
   Sub(<<Plan("dev1", "p1", Forged)>>, <<d1>>, None),
   Sub(<<Plan("dev3", "p3", Forged)>>, <<d1, d3>>, None),
   Sub(<<Plan("dev1", "p1", Base)>>, <<d1>>, devices),
   Sub(<<Plan("dev1", "p1", Base)>>, <<d1>>, cards),
   Sub(<<Plan("dev2", "p2", Newer)>>, <<d2>>, devices),
   Sub(<<>>, <<>>, tools),
   Sub(<<>>, <<>>, bogus)}

(* No profile gives a version two digests, and none names an admitted recipe. *)
ASSUME VersionsHaveOneDigest == DigestsAgree
=============================================================================
