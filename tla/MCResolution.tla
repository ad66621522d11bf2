---------------------------- MODULE MCResolution ----------------------------
(***************************************************************************)
(* A configuration of a native repository and a source catalog, and its    *)
(* successor.  There are packages with two versions, a capability with two *)
(* providers, a conflict, a package built from source with a dependency of *)
(* the build, one that cannot be satisfied and a cycle.                    *)
(***************************************************************************)
EXTENDS PackageResolution

MCCpu == [arch |-> "x86-64", features |-> {"aes"}]
MCSupports == [a \in {"x86-64", "unknown"} |-> IF a = "x86-64" THEN {"aes"} ELSE {}]

MCRank == [n \in {"app", "cc", "core", "extra", "gnir", "lib", "ossl", "ring", "ssl1", "ssl2",
                  "tool", "zroot", "1", "2"} |->
  CASE n = "1" -> 1 [] n = "2" -> 2 [] n = "app" -> 3 [] n = "cc" -> 4 [] n = "core" -> 5
    [] n = "extra" -> 6 [] n = "gnir" -> 7 [] n = "lib" -> 8 [] n = "ossl" -> 9
    [] n = "ring" -> 10 [] n = "ssl1" -> 11 [] n = "ssl2" -> 12 [] n = "tool" -> 13
    [] n = "zroot" -> 14]

(* A constraint on a name, on some of its versions, or on one of two. *)
On1(n) == [name |-> n, versions |-> {}]
At(n, v) == [name |-> n, versions |-> {v}]
Capability(n) == [name |-> n, version |-> None]

Native(name, version, sequence, requirements, provides, conflicts) ==
  [name |-> name, version |-> version, release |-> 1, sequence |-> sequence,
   ecosystem |-> None, scope |-> "system", content |-> <<name, version>>,
   artifact |-> <<"artifact", name, version>>,
   requirements |-> requirements, provides |-> provides, conflicts |-> conflicts]

app1 == Native("app", "1", 1, <<{On1("cc"), On1("ssl1")}>>, <<>>, <<>>)
app2 == Native("app", "2", 2, <<{On1("lib")}, {On1("tls")}>>, <<>>, <<>>)
lib1 == Native("lib", "1", 1, <<>>, <<>>, <<>>)
lib2 == Native("lib", "2", 2, <<>>, <<>>, <<>>)
ssl1 == Native("ssl1", "1", 1, <<{On1("lib")}>>, <<Capability("tls")>>, <<At("lib", "1")>>)
ssl2 == Native("ssl2", "1", 2, <<{At("lib", "1"), On1("gnir")}>>, <<Capability("tls")>>, <<On1("ssl1")>>)
cc   == Native("cc", "1", 1, <<{On1("lib")}>>, <<>>, <<>>)
ring == Native("ring", "1", 1, <<{On1("gnir")}>>, <<>>, <<>>)
gnir == Native("gnir", "1", 1, <<{On1("ring")}>>, <<>>, <<On1("cc")>>)
(* Whichever of its alternatives is chosen, two of the choices conflict. *)
ossl == Native("ossl", "1", 1,
  <<{On1("app"), On1("ssl2")}, {On1("ssl1"), On1("cc")}, {On1("ssl1"), On1("gnir")}>>,
  <<>>, <<>>)

Tool(version, sequence, depends) ==
  [name |-> "tool", version |-> version, release |-> 1, sequence |-> sequence,
   ecosystem |-> "arch", clean |-> TRUE, architectures |-> {"any"},
   content |-> <<"tool", version>>, recipe |-> <<"recipe", version>>, lock |-> <<"lock", version>>,
   requirements |-> <<{On1("lib")}>>, provides |-> <<>>, conflicts |-> <<>>,
   ingress |->
     [lock |-> [authentic |-> TRUE, package |-> "tool", ecosystem |-> "arch"],
      target |-> [authentic |-> TRUE, package |-> "tool", arch |-> "x86-64", scope |-> "system",
                  authority |-> "arach-native", hardware |-> FALSE, installTree |-> TRUE,
                  network |-> FALSE, sandbox |-> TRUE, reproducible |-> TRUE],
      recipe |-> [package |-> "tool", version |-> version, release |-> 1,
                  digest |-> <<"recipe", version>>, lock |-> <<"lock", version>>,
                  depends |-> depends,
                  runtime |-> [depends |-> {"lib"}, provides |-> {}, conflicts |-> {}]]]]

Index(digest, packages) ==
  [digest |-> digest, authentic |-> TRUE, signer |-> Key, authority |-> "arach-native",
   packages |-> packages]
Catalog(digest, generation, packages) ==
  [digest |-> digest, authentic |-> TRUE, signer |-> Key, key |-> Key, format |-> 2,
   name |-> "extra", channel |-> "main", generation |-> generation, expires |-> 2,
   packages |-> packages]

Repo(name, priority, generation, remote, document) ==
  [name |-> name, clean |-> TRUE, generation |-> generation, channel |-> "main",
   priority |-> priority, architectures |-> {"x86-64"}, remote |-> remote, document |-> document]

Cfg(generation, digest, core, extra) ==
  [authentic |-> TRUE, signer |-> Key, key |-> Key, format |-> 1, generation |-> generation,
   digest |-> digest, expires |-> 2, channel |-> "main", network |-> TRUE,
   state |-> <<"state">>, work |-> <<"work">>, artifacts |-> <<"artifacts">>,
   compiler |-> [arch |-> "x86-64", required |-> {"aes"}, allowed |-> {"aes"}],
   natives |-> <<Repo("core", 10, generation, TRUE, core)>>,
   sources |-> <<Repo("extra", 5, generation, FALSE, extra)>>]

old == Cfg(1, "c1", Index("i1", <<app1, lib1, cc, ossl, ssl1, ssl2, ring, gnir>>),
           Catalog("k1", 1, <<Tool("1", 1, <<"cc">>)>>))
new == Cfg(2, "c2", Index("i2", <<app1, app2, lib1, lib2, ssl1, ssl2, gnir, ring, cc>>),
           Catalog("k2", 2, <<Tool("1", 1, <<"cc">>), Tool("2", 2, <<>>)>>))

MCConfig == {old, new}
Ask(name) == [namespace |-> None, name |-> name, version |-> None]
MCSelector == {Ask("app"), Ask("lib"), Ask("tool"), Ask("ossl"), Ask("ring"),
               [namespace |-> "core", name |-> "cc", version |-> "1"]}
MCPackage == {"app", "cc", "gnir", "lib", "ossl", "ring", "ssl1", "ssl2", "tool"}

Op(op, a, va, b, versions) == [op |-> op, a |-> a, va |-> va, b |-> b, versions |-> versions]
MCOps ==
  {Op("require", "p", 1, None, <<>>),
   Op("dependency", "p", 1, "q", <<1, 2, 3>>), Op("dependency", "p", 1, "q", <<2, 1>>),
   Op("conflict", "p", 1, "q", <<3>>), Op("conflict", "q", 2, "q", <<2>>),
   Op("at most one", "q", None, None, <<1, 2, 3>>),
   Op("at most one", "r", None, None, <<1, 2, 3, 4, 5, 6>>)}
=============================================================================
