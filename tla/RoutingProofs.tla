-------------------------- MODULE RoutingProofs --------------------------
(***************************************************************************)
(* Proofs about Routing, for every set of configuration files: what is in  *)
(* the environment of a process, that ${name.port} stays current, and that *)
(* the proxy forwards a request to the service it is meant for.            *)
(***************************************************************************)
EXTENDS Routing, PlansProofs

------------------------------------------------------------------------------
(******************************** Values **********************************)

Tokens == [kind : {"chr", "os", "port", "call"}, text : Texts, default : Texts]

LEMMA ValuesAre == Values = Seq(Tokens)
  BY DEF Values, Tokens

\* values put together are a value
LEMMA FlattenValue ==
    ASSUME NEW seqs, NEW m \in Nat, Len(seqs) = m, seqs \in [1 .. m -> Values]
    PROVE  FlattenSeq(seqs) \in Values
<1>1. CASE m = 0
  <2>1. FlattenSeq(seqs) = seqs
    BY <1>1 DEF FlattenSeq
  <2>2. seqs \in Seq(Tokens)
    <3>1. seqs \in [1 .. 0 -> Values]
      BY <1>1
    <3>2. \A i \in 1 .. 0 : seqs[i] \in Tokens
      OBVIOUS
    <3>3. seqs \in [1 .. 0 -> Tokens]
      BY <3>1, <3>2
    <3> QED BY <3>3
  <2> QED BY <2>1, <2>2, ValuesAre
<1>2. CASE m # 0
  <2>1. PICK F : /\ FlattenSeq(seqs) = F[m]
                 /\ F[1] = seqs[1]
                 /\ \A k \in 2 .. m : F[k] = F[k - 1] \o seqs[k]
    BY <1>2, FlattenUnfolds
  <2> DEFINE T == {k \in 0 .. m : k = 0 \/ F[k] \in Values}
  <2>2. 0 \in T
    OBVIOUS
  <2>3. ASSUME NEW k \in Nat, k < m, k \in T PROVE k + 1 \in T
    <3>1. k + 1 \in 1 .. m
      BY <2>3
    <3>2. seqs[k + 1] \in Values
      BY <3>1
    <3>3. CASE k = 0
      BY <2>1, <3>1, <3>2, <3>3
    <3>4. CASE k # 0
      <4>1. k + 1 \in 2 .. m /\ (k + 1) - 1 = k
        BY <3>1, <3>4
      <4>2. F[k + 1] = F[k] \o seqs[k + 1]
        BY <2>1, <4>1
      <4>3. F[k] \in Seq(Tokens) /\ seqs[k + 1] \in Seq(Tokens)
        BY <2>3, <3>2, <3>4, ValuesAre
      <4>4. F[k] \o seqs[k + 1] \in Seq(Tokens)
        BY <4>3
      <4>5. F[k + 1] \in Values
        BY <4>2, <4>4, ValuesAre, Zenon
      <4> QED BY <3>1, <4>5
    <3> QED BY <3>3, <3>4
  <2> HIDE DEF T
  <2>4. \A k \in 0 .. m : k \in T
    BY <2>2, <2>3, Upwards
  <2>5. m \in T
    BY <2>4
  <2>6. F[m] \in Values
    BY <1>2, <2>5 DEF T
  <2> QED BY <2>1, <2>6
<1> QED BY <1>1, <1>2

LEMMA ValueFacts ==
    ASSUME NEW val \in Values
    PROVE  /\ Len(val) \in Nat /\ DOMAIN val = 1 .. Len(val)
           /\ \A i \in DOMAIN val : val[i] \in Tokens /\ <<val[i]>> \in Values
<1>1. val \in Seq(Tokens)
  BY ValuesAre
<1>2. Len(val) \in Nat /\ DOMAIN val = 1 .. Len(val) /\ \A i \in DOMAIN val : val[i] \in Tokens
  BY <1>1
<1>3. \A t \in Tokens : <<t>> \in Seq(Tokens)
  OBVIOUS
<1> QED BY <1>2, <1>3, ValuesAre

\* env() and ${VAR}: what replaces a token of a value is a value
LEMMA ExpandFacts ==
    ASSUME NEW os, IsVars(os), NEW val \in Values
    PROVE  expand_env_func(os, val) \in Values
<1>1. ASSUME NEW i \in DOMAIN val PROVE Expand(os, val[i]) \in Values
  <2>1. val[i] \in Tokens /\ <<val[i]>> \in Values
    BY ValueFacts
  <2>2. Chr(val[i].default) \in Tokens
    <3>1. val[i].default \in Texts
      BY <2>1 DEF Tokens
    <3>2. "" \in Texts
      BY DEF Texts
    <3> QED BY <3>1, <3>2 DEF Chr, Token, Tokens
  <2>3. <<Chr(val[i].default)>> \in Seq(Tokens) /\ <<>> \in Seq(Tokens)
    BY <2>2
  <2>4. <<Chr(val[i].default)>> \in Values /\ <<>> \in Values
    BY <2>3, ValuesAre
  <2> QED BY <2>1, <2>4 DEF Expand, Lookup, IsVars
<1>2. PICK m \in Nat : m = Len(val) /\ DOMAIN val = 1 .. m
  BY ValueFacts
<1>3. PICK seqs : seqs = [i \in DOMAIN val |-> Expand(os, val[i])]
  OBVIOUS
<1>4. seqs \in [1 .. m -> Values]
  BY <1>1, <1>2, <1>3
<1>5. Len(seqs) = m
  BY <1>4
<1>6. FlattenSeq(seqs) \in Values
  BY <1>4, <1>5, FlattenValue
<1> QED BY <1>3, <1>6 DEF expand_env_func

LEMMA InterpolateFacts ==
    ASSUME NEW os, IsVars(os), NEW val \in Values
    PROVE  interpolate_env_vars(os, val) \in Values
<1>1. ASSUME NEW i \in DOMAIN val PROVE Interpolate(os, val[i]) \in Values
  <2>1. val[i] \in Tokens /\ <<val[i]>> \in Values
    BY ValueFacts
  <2> QED BY <2>1 DEF Interpolate, Lookup, IsVars
<1>2. PICK m \in Nat : m = Len(val) /\ DOMAIN val = 1 .. m
  BY ValueFacts
<1>3. PICK seqs : seqs = [i \in DOMAIN val |-> Interpolate(os, val[i])]
  OBVIOUS
<1>4. seqs \in [1 .. m -> Values]
  BY <1>1, <1>2, <1>3
<1>5. Len(seqs) = m
  BY <1>4
<1>6. FlattenSeq(seqs) \in Values
  BY <1>4, <1>5, FlattenValue
<1> QED BY <1>3, <1>6 DEF interpolate_env_vars

LEMMA MergedFacts ==
    ASSUME NEW f, NEW g
    PROVE  /\ DOMAIN Merged(f, g) = DOMAIN f \cup DOMAIN g
           /\ \A x \in DOMAIN f \cup DOMAIN g : Merged(f, g)[x] = IF x \in DOMAIN f THEN f[x] ELSE g[x]
           /\ Merged(f, g) = [x \in DOMAIN Merged(f, g) |-> Merged(f, g)[x]]
           /\ IsVars(f) /\ IsVars(g) => IsVars(Merged(f, g))
<1>1. PICK h : h = Merged(f, g)
  OBVIOUS
<1>2. h = [x \in DOMAIN f \cup DOMAIN g |-> IF x \in DOMAIN f THEN f[x] ELSE g[x]]
  BY <1>1 DEF Merged
<1>3. DOMAIN h = DOMAIN f \cup DOMAIN g
  BY <1>2
<1>4. \A x \in DOMAIN h : h[x] = IF x \in DOMAIN f THEN f[x] ELSE g[x]
  BY <1>2, <1>3
<1>5. h = [x \in DOMAIN h |-> h[x]]
  BY <1>2, <1>3
<1>6. IsVars(f) /\ IsVars(g) => IsVars(h)
  BY <1>3, <1>4, <1>5 DEF IsVars
<1> QED BY <1>1, <1>3, <1>4, <1>5, <1>6

\* h has the entries of f, and those of g that f does not have
IsMerge(h, f, g) ==
    /\ DOMAIN h = DOMAIN f \cup DOMAIN g
    /\ \A x \in DOMAIN f : h[x] = f[x]
    /\ \A x \in DOMAIN g : x \notin DOMAIN f => h[x] = g[x]
    /\ IsVars(f) /\ IsVars(g) => IsVars(h)

LEMMA MergedVars ==
    ASSUME NEW f, NEW g
    PROVE  IsMerge(Merged(f, g), f, g)
<1>1. PICK h : h = Merged(f, g)
  OBVIOUS
<1>2. h = [x \in DOMAIN f \cup DOMAIN g |-> IF x \in DOMAIN f THEN f[x] ELSE g[x]]
  BY <1>1 DEF Merged
<1>3. DOMAIN h = DOMAIN f \cup DOMAIN g
  BY <1>2
<1>4. \A x \in DOMAIN f : h[x] = f[x]
  BY <1>2
<1>5. \A x \in DOMAIN g : x \notin DOMAIN f => h[x] = g[x]
  BY <1>2
<1>6. IsVars(f) /\ IsVars(g) => IsVars(h)
  BY <1>1, MergedFacts
<1> QED BY <1>1, <1>3, <1>4, <1>5, <1>6 DEF IsMerge

------------------------------------------------------------------------------
(************************** from_file_with_env ****************************)

IsSvc(s) == s = [mode |-> s.mode, deps |-> s.deps, port |-> s.port, subdomain |-> s.subdomain,
                 readable |-> s.readable, env |-> s.env, env_file |-> s.env_file, cmd |-> s.cmd]

IsFile(f) ==
    /\ f = [service |-> f.service, dotenv |-> f.dotenv, env_name |-> f.env_name,
            env_override |-> f.env_override, os |-> f.os, args |-> f.args]
    /\ \A n \in Services : IsSvc(f.service[n])

IsTable(t) == t = [n \in Services |-> t[n]]

\* r differs from f in env, cmd and env_override only
Loads(f, r) ==
    /\ IsFile(r)
    /\ r.dotenv = f.dotenv /\ r.env_name = f.env_name /\ r.os = f.os
    /\ IsTable(r.service)
    /\ \A n \in Services :
        /\ r.service[n].mode = f.service[n].mode /\ r.service[n].deps = f.service[n].deps
        /\ r.service[n].port = f.service[n].port /\ r.service[n].subdomain = f.service[n].subdomain
        /\ r.service[n].env_file = f.service[n].env_file

ExpandVars(os, env) == [k \in DOMAIN env |-> expand_env_func(os, env[k])]
InterpolateVars(os, env) == [k \in DOMAIN env |-> interpolate_env_vars(os, env[k])]

\* s with other variables and another command
With(s, e, c) == [mode |-> s.mode, deps |-> s.deps, port |-> s.port, subdomain |-> s.subdomain,
                  readable |-> s.readable, env |-> e, env_file |-> s.env_file, cmd |-> c]

LEMMA WithFacts ==
    ASSUME NEW s, NEW e, NEW c
    PROVE  /\ IsSvc(With(s, e, c)) /\ With(s, e, c).env = e /\ With(s, e, c).cmd = c
           /\ With(s, e, c).mode = s.mode /\ With(s, e, c).deps = s.deps
           /\ With(s, e, c).port = s.port /\ With(s, e, c).subdomain = s.subdomain
           /\ With(s, e, c).env_file = s.env_file
<1>1. PICK w : w = With(s, e, c)
  OBVIOUS
<1>2. w = [mode |-> s.mode, deps |-> s.deps, port |-> s.port, subdomain |-> s.subdomain,
           readable |-> s.readable, env |-> e, env_file |-> s.env_file, cmd |-> c]
  BY <1>1 DEF With
<1>3. IsSvc(w) /\ w.env = e /\ w.cmd = c /\ w.mode = s.mode /\ w.deps = s.deps /\ w.port = s.port
      /\ w.subdomain = s.subdomain /\ w.env_file = s.env_file
  BY <1>2 DEF IsSvc
<1> QED BY <1>1, <1>3

LEMMA WithEnv ==
    ASSUME NEW s, IsSvc(s), NEW e, NEW t, t = [s EXCEPT !.env = e]
    PROVE  t = With(s, e, s.cmd)
  BY DEF IsSvc, With

\* r is f with the services s and the override blocks o
IsRecord(r, f, s, o) ==
    r = [service |-> s, dotenv |-> f.dotenv, env_name |-> f.env_name,
         env_override |-> o, os |-> f.os, args |-> f.args]

\* s is the services of f with the variables e and the commands c
Sets(f, s, e, c) ==
    /\ s = [n \in Services |-> s[n]]
    /\ \A n \in Services : s[n] = With(f.service[n], e[n], c[n])

\* the services replaced by others that differ in env and cmd
LEMMA SetServices ==
    ASSUME NEW f, NEW e, NEW c, NEW s, Sets(f, s, e, c),
           NEW o, NEW r, IsRecord(r, f, s, o)
    PROVE  /\ Loads(f, r) /\ r.env_override = o
           /\ \A n \in Services : r.service[n].env = e[n] /\ r.service[n].cmd = c[n]
<1>1. r = [service |-> s, dotenv |-> f.dotenv, env_name |-> f.env_name,
           env_override |-> o, os |-> f.os, args |-> f.args]
  BY DEF IsRecord
<1>2. ASSUME NEW n \in Services
      PROVE  /\ IsSvc(s[n]) /\ s[n].env = e[n] /\ s[n].cmd = c[n]
             /\ s[n].mode = f.service[n].mode /\ s[n].deps = f.service[n].deps
             /\ s[n].port = f.service[n].port /\ s[n].subdomain = f.service[n].subdomain
             /\ s[n].env_file = f.service[n].env_file
  <2>1. s[n] = With(f.service[n], e[n], c[n])
    BY <1>2 DEF Sets
  <2>2. PICK a, b, d : a = f.service[n] /\ b = e[n] /\ d = c[n]
    OBVIOUS
  <2>3. s[n] = With(a, b, d)
    BY <2>1, <2>2
  <2>4. /\ IsSvc(s[n]) /\ s[n].env = b /\ s[n].cmd = d
        /\ s[n].mode = a.mode /\ s[n].deps = a.deps /\ s[n].port = a.port
        /\ s[n].subdomain = a.subdomain /\ s[n].env_file = a.env_file
    BY <2>3 DEF With, IsSvc
  <2> QED BY <2>2, <2>4
<1>3. r.service = s /\ r.dotenv = f.dotenv /\ r.env_name = f.env_name /\ r.os = f.os
      /\ r.env_override = o /\ r.args = f.args
  BY <1>1
<1>4. r = [service |-> r.service, dotenv |-> r.dotenv, env_name |-> r.env_name,
           env_override |-> r.env_override, os |-> r.os, args |-> r.args]
  BY <1>1, <1>3
<1>5. IsFile(r)
  BY <1>2, <1>3, <1>4 DEF IsFile
<1>6. s = [n \in Services |-> s[n]]
  BY DEF Sets
<1>7. IsTable(r.service)
  BY <1>3, <1>6 DEF IsTable
<1> QED BY <1>2, <1>3, <1>5, <1>7 DEF Loads

\* env() is replaced in every value of the file
LEMMA ExpandStep ==
    ASSUME NEW f, IsFile(f), NEW r, r = ExpandFile(f)
    PROVE  /\ Loads(f, r)
           /\ \A n \in Services : r.service[n].env = ExpandVars(f.os, f.service[n].env)
           /\ r.env_override = [e \in DOMAIN f.env_override |-> [n \in DOMAIN f.env_override[e] |->
                                    ExpandVars(f.os, f.env_override[e][n])]]
<1>1. PICK e, c : /\ e = [n \in Services |-> ExpandVars(f.os, f.service[n].env)]
                  /\ c = [n \in Services |-> expand_env_func(f.os, f.service[n].cmd)]
  OBVIOUS
<1>2. PICK s : s = [n \in Services |-> With(f.service[n], e[n], c[n])]
  OBVIOUS
<1>3. PICK o : o = [h \in DOMAIN f.env_override |-> [n \in DOMAIN f.env_override[h] |->
                                    ExpandVars(f.os, f.env_override[h][n])]]
  OBVIOUS
<1>4. PICK t : t = [n \in Services |-> [f.service[n] EXCEPT
                        !.env = ExpandVars(f.os, @), !.cmd = expand_env_func(f.os, @)]]
  OBVIOUS
<1>5. t = s
  <2>1. ASSUME NEW n \in Services PROVE t[n] = s[n]
    <3>1. PICK a : a = f.service[n]
      OBVIOUS
    <3>2. IsSvc(a)
      BY <2>1, <3>1 DEF IsFile
    <3>3. PICK b, d : b = ExpandVars(f.os, a.env) /\ d = expand_env_func(f.os, a.cmd)
      OBVIOUS
    <3>4. t[n] = [a EXCEPT !.env = b, !.cmd = d]
      BY <1>4, <2>1, <3>1, <3>3
    <3>5. e[n] = b /\ c[n] = d
      BY <1>1, <2>1, <3>1, <3>3
    <3>6. s[n] = With(a, b, d)
      BY <1>2, <2>1, <3>1, <3>5
    <3>7. t[n] = With(a, b, d)
      <4>1. PICK u : u = [a EXCEPT !.env = b]
        OBVIOUS
      <4>2. u = With(a, b, a.cmd)
        BY <3>2, <4>1, WithEnv
      <4>3. t[n] = [u EXCEPT !.cmd = d]
        BY <3>4, <4>1
      <4> QED BY <4>2, <4>3 DEF With
    <3> QED BY <3>6, <3>7
  <2>2. t = [n \in Services |-> t[n]] /\ s = [n \in Services |-> s[n]]
    BY <1>2, <1>4
  <2> QED BY <2>1, <2>2
<1>6. r = [f EXCEPT !.service = t, !.env_override = o]
  BY <1>3, <1>4 DEF ExpandFile, ExpandVars
<1>7. IsRecord(r, f, s, o)
  BY <1>5, <1>6 DEF IsFile, IsRecord
<1>8. /\ Loads(f, r) /\ r.env_override = o
      /\ \A n \in Services : r.service[n].env = e[n]
  <2>1. Sets(f, s, e, c)
    BY <1>2 DEF Sets
  <2>2. /\ Loads(f, r) /\ r.env_override = o
        /\ \A n \in Services : r.service[n].env = e[n] /\ r.service[n].cmd = c[n]
    BY <1>7, <2>1, SetServices
  <2> QED BY <2>2, Zenon
<1> QED BY <1>1, <1>3, <1>8

SetsEnv(f, s, e) ==
    /\ s = [n \in Services |-> s[n]]
    /\ \A n \in Services : s[n] = [f.service[n] EXCEPT !.env = e[n]]

\* the two steps that add what is not defined, and the one that overrides
LEMMA MergeStep ==
    ASSUME NEW f, IsFile(f), NEW e, NEW t, SetsEnv(f, t, e),
           NEW r, IsRecord(r, f, t, f.env_override)
    PROVE  Loads(f, r) /\ r.env_override = f.env_override /\ \A n \in Services : r.service[n].env = e[n]
<1>1. PICK c : c = [n \in Services |-> f.service[n].cmd]
  OBVIOUS
<1>2. ASSUME NEW n \in Services PROVE t[n] = With(f.service[n], e[n], c[n])
  <2>1. PICK a, b : a = f.service[n] /\ b = e[n]
    OBVIOUS
  <2>2. IsSvc(a)
    BY <1>2, <2>1 DEF IsFile
  <2>3. t[n] = [a EXCEPT !.env = b]
    BY <1>2, <2>1 DEF SetsEnv
  <2>4. t[n] = With(a, b, a.cmd)
    BY <2>2, <2>3, WithEnv
  <2> QED BY <1>1, <1>2, <2>1, <2>4
<1>3. PICK o : o = f.env_override
  OBVIOUS
<1>4. IsRecord(r, f, t, o)
  BY <1>3
<1>5. Sets(f, t, e, c)
  BY <1>2 DEF Sets, SetsEnv
<1>6. /\ Loads(f, r) /\ r.env_override = o
      /\ \A n \in Services : r.service[n].env = e[n] /\ r.service[n].cmd = c[n]
  BY <1>4, <1>5, SetServices
<1> QED BY <1>3, <1>6, Zenon

LEMMA EnvFilesStep ==
    ASSUME NEW f, IsFile(f), NEW r, r = resolve_env_files(f)
    PROVE  /\ Loads(f, r) /\ r.env_override = f.env_override
           /\ \A n \in Services : r.service[n].env = Merged(f.service[n].env, f.service[n].env_file)
<1>1. PICK e : e = [n \in Services |-> Merged(f.service[n].env, f.service[n].env_file)]
  OBVIOUS
<1>2. PICK t : t = [n \in Services |-> [f.service[n] EXCEPT !.env = e[n]]]
  OBVIOUS
<1>3. r = [f EXCEPT !.service = t]
  BY <1>1, <1>2 DEF resolve_env_files
<1>4. Loads(f, r) /\ r.env_override = f.env_override /\ \A n \in Services : r.service[n].env = e[n]
  <2>1. SetsEnv(f, t, e)
    BY <1>2 DEF SetsEnv
  <2>2. IsRecord(r, f, t, f.env_override)
    BY <1>3 DEF IsFile, IsRecord
  <2> QED BY <2>1, <2>2, MergeStep
<1> QED BY <1>1, <1>4

LEMMA DotenvStep ==
    ASSUME NEW f, IsFile(f), NEW r, r = apply_global_dotenv(f)
    PROVE  /\ Loads(f, r) /\ r.env_override = f.env_override
           /\ \A n \in Services : r.service[n].env = Merged(f.service[n].env, f.dotenv)
<1>1. PICK e : e = [n \in Services |-> Merged(f.service[n].env, f.dotenv)]
  OBVIOUS
<1>2. PICK t : t = [n \in Services |-> [f.service[n] EXCEPT !.env = e[n]]]
  OBVIOUS
<1>3. r = [f EXCEPT !.service = t]
  BY <1>1, <1>2 DEF apply_global_dotenv
<1>4. Loads(f, r) /\ r.env_override = f.env_override /\ \A n \in Services : r.service[n].env = e[n]
  <2>1. SetsEnv(f, t, e)
    BY <1>2 DEF SetsEnv
  <2>2. IsRecord(r, f, t, f.env_override)
    BY <1>3 DEF IsFile, IsRecord
  <2> QED BY <2>1, <2>2, MergeStep
<1> QED BY <1>1, <1>4

LEMMA InterpolationStep ==
    ASSUME NEW f, IsFile(f), NEW r, r = apply_interpolation(f)
    PROVE  /\ Loads(f, r) /\ r.env_override = f.env_override
           /\ \A n \in Services : r.service[n].env = InterpolateVars(f.os, f.service[n].env)
<1>1. PICK e, c : /\ e = [n \in Services |-> InterpolateVars(f.os, f.service[n].env)]
                  /\ c = [n \in Services |-> interpolate_env_vars(f.os, f.service[n].cmd)]
  OBVIOUS
<1>2. PICK s : s = [n \in Services |-> With(f.service[n], e[n], c[n])]
  OBVIOUS
<1>3. PICK o : o = f.env_override
  OBVIOUS
<1>4. PICK t : t = [n \in Services |-> [f.service[n] EXCEPT
                        !.env = InterpolateVars(f.os, @), !.cmd = interpolate_env_vars(f.os, @)]]
  OBVIOUS
<1>5. t = s
  <2>1. ASSUME NEW n \in Services PROVE t[n] = s[n]
    <3>1. PICK a : a = f.service[n]
      OBVIOUS
    <3>2. IsSvc(a)
      BY <2>1, <3>1 DEF IsFile
    <3>3. PICK b, d : b = InterpolateVars(f.os, a.env) /\ d = interpolate_env_vars(f.os, a.cmd)
      OBVIOUS
    <3>4. t[n] = [a EXCEPT !.env = b, !.cmd = d]
      BY <1>4, <2>1, <3>1, <3>3
    <3>5. e[n] = b /\ c[n] = d
      BY <1>1, <2>1, <3>1, <3>3
    <3>6. s[n] = With(a, b, d)
      BY <1>2, <2>1, <3>1, <3>5
    <3>7. t[n] = With(a, b, d)
      <4>1. PICK u : u = [a EXCEPT !.env = b]
        OBVIOUS
      <4>2. u = With(a, b, a.cmd)
        BY <3>2, <4>1, WithEnv
      <4>3. t[n] = [u EXCEPT !.cmd = d]
        BY <3>4, <4>1
      <4> QED BY <4>2, <4>3 DEF With
    <3> QED BY <3>6, <3>7
  <2>2. t = [n \in Services |-> t[n]] /\ s = [n \in Services |-> s[n]]
    BY <1>2, <1>4
  <2> QED BY <2>1, <2>2
<1>6. r = [f EXCEPT !.service = t]
  BY <1>4 DEF apply_interpolation, InterpolateVars
<1>7. IsRecord(r, f, s, o)
  BY <1>3, <1>5, <1>6 DEF IsFile, IsRecord
<1>8. /\ Loads(f, r) /\ r.env_override = o
      /\ \A n \in Services : r.service[n].env = e[n]
  <2>1. Sets(f, s, e, c)
    BY <1>2 DEF Sets
  <2>2. /\ Loads(f, r) /\ r.env_override = o
        /\ \A n \in Services : r.service[n].env = e[n] /\ r.service[n].cmd = c[n]
    BY <1>7, <2>1, SetServices
  <2> QED BY <2>2, Zenon
<1> QED BY <1>1, <1>3, <1>8

Overrides(f, r) ==
    \A n \in Services :
        /\ f.env_name # "" /\ n \in DOMAIN f.env_override[f.env_name] =>
                r.service[n].env = Merged(f.env_override[f.env_name][n], f.service[n].env)
        /\ f.env_name = "" \/ n \notin DOMAIN f.env_override[f.env_name] =>
                r.service[n].env = f.service[n].env

LEMMA OverrideStep ==
    ASSUME NEW f, IsFile(f), IsTable(f.service), NEW r, r = apply_env_override(f)
    PROVE  Loads(f, r) /\ Overrides(f, r)
<1>1. CASE f.env_name = ""
  <2>1. r = f
    BY <1>1 DEF apply_env_override
  <2> QED BY <1>1, <2>1 DEF Loads, Overrides
<1>2. CASE f.env_name # ""
  <2>1. PICK over : over = f.env_override[f.env_name]
    OBVIOUS
  <2>2. PICK e : e = [n \in Services |-> IF n \in DOMAIN over THEN Merged(over[n], f.service[n].env)
                                         ELSE f.service[n].env]
    OBVIOUS
  <2>3. PICK t : t = [n \in Services |-> [f.service[n] EXCEPT !.env = e[n]]]
    OBVIOUS
  <2>4. PICK u : u = [n \in Services |-> IF n \in DOMAIN over
                                         THEN [f.service[n] EXCEPT !.env = Merged(over[n], @)]
                                         ELSE f.service[n]]
    OBVIOUS
  <2>5. t = u
    <3>1. ASSUME NEW n \in Services PROVE t[n] = u[n]
      <4>1. PICK a : a = f.service[n]
        OBVIOUS
      <4>2. IsSvc(a)
        BY <3>1, <4>1 DEF IsFile
      <4>3. CASE n \in DOMAIN over
        <5>1. t[n] = [a EXCEPT !.env = Merged(over[n], a.env)]
          BY <2>2, <2>3, <3>1, <4>1, <4>3
        <5>2. u[n] = [a EXCEPT !.env = Merged(over[n], a.env)]
          BY <2>4, <3>1, <4>1, <4>3
        <5> QED BY <5>1, <5>2
      <4>4. CASE n \notin DOMAIN over
        <5>1. t[n] = [a EXCEPT !.env = a.env] /\ u[n] = a
          BY <2>2, <2>3, <2>4, <3>1, <4>1, <4>4
        <5>2. [a EXCEPT !.env = a.env] = a
          BY <4>2 DEF IsSvc
        <5> QED BY <5>1, <5>2
      <4> QED BY <4>3, <4>4
    <3>2. t = [n \in Services |-> t[n]] /\ u = [n \in Services |-> u[n]]
      BY <2>3, <2>4
    <3> QED BY <3>1, <3>2
  <2>6. r = [f EXCEPT !.service = u]
    BY <1>2, <2>1, <2>4 DEF apply_env_override
  <2>7. Loads(f, r) /\ \A n \in Services : r.service[n].env = e[n]
    <3>1. SetsEnv(f, t, e)
      BY <2>3 DEF SetsEnv
    <3>2. IsRecord(r, f, t, f.env_override)
      BY <2>5, <2>6 DEF IsFile, IsRecord
    <3> QED BY <3>1, <3>2, MergeStep
  <2> QED BY <1>2, <2>1, <2>2, <2>7 DEF Overrides
<1> QED BY <1>1, <1>2

------------------------------------------------------------------------------
(***************************** Precedence *********************************)

\* the value from source j
ValueFrom(n, k, j) ==
    LET raw == Sources(n)[j][k]
        val == IF j \in {1, 2} THEN expand_env_func(file.os, raw) ELSE raw
    IN IF j \in {2, 3, 4} THEN interpolate_env_vars(file.os, val) ELSE val

First(n, k, j) ==
    /\ j \in 1 .. 5 /\ k \in DOMAIN Sources(n)[j]
    /\ \A h \in 1 .. (j - 1) : k \notin DOMAIN Sources(n)[h]

LEMMA ExpectedIs ==
    ASSUME NEW n, NEW k, NEW j, First(n, k, j)
    PROVE  Expected(n, k) = ValueFrom(n, k, j)
<1>1. \A i \in 1 .. 5 : First(n, k, i) => i = j
  <2> SUFFICES ASSUME NEW i \in 1 .. 5, First(n, k, i), i # j PROVE FALSE
    OBVIOUS
  <2>1. j \in 1 .. 5
    BY DEF First
  <2>2. CASE i < j
    <3>1. i \in 1 .. (j - 1)
      BY <2>1, <2>2
    <3> QED BY <3>1 DEF First
  <2>3. CASE j < i
    <3>1. j \in 1 .. (i - 1)
      BY <2>1, <2>3
    <3> QED BY <3>1 DEF First
  <2> QED BY <2>1, <2>2, <2>3
<1>2. PICK c : c = CHOOSE i \in 1 .. 5 : First(n, k, i)
  OBVIOUS
<1>3. j \in 1 .. 5
  BY DEF First
<1>4. c \in 1 .. 5 /\ First(n, k, c)
  BY <1>2, <1>3
<1>5. c = j
  BY <1>1, <1>4
<1>6. c = CHOOSE i \in 1 .. 5 :
            k \in DOMAIN Sources(n)[i] /\ \A h \in 1 .. (i - 1) : k \notin DOMAIN Sources(n)[h]
  <2>1. \A i \in 1 .. 5 : First(n, k, i) <=>
            k \in DOMAIN Sources(n)[i] /\ \A h \in 1 .. (i - 1) : k \notin DOMAIN Sources(n)[h]
    BY DEF First
  <2> QED BY <1>2, <2>1
<1> QED BY <1>5, <1>6 DEF Expected, ValueFrom

\* the variables that the override block in use gives to n
Override(n) ==
    IF file.env_name # "" /\ n \in DOMAIN file.env_override[file.env_name]
    THEN file.env_override[file.env_name][n] ELSE <<>>

LEMMA SourcesAre ==
    ASSUME NEW n
    PROVE  /\ Sources(n)[1] = Override(n)
           /\ Sources(n)[2] = file.service[n].env
           /\ Sources(n)[3] = file.service[n].env_file
           /\ Sources(n)[4] = file.dotenv
           /\ Sources(n)[5] = file.os
<1>1. PICK a, b, c, d, e : /\ a = Override(n) /\ b = file.service[n].env /\ c = file.service[n].env_file
                           /\ d = file.dotenv /\ e = file.os
  OBVIOUS
<1>2. DOMAIN <<>> = {}
  OBVIOUS
<1>3. Sources(n) = <<a, b, c, d, e>>
  BY <1>1, <1>2 DEF Sources, Override
<1>4. <<a, b, c, d, e>>[1] = a /\ <<a, b, c, d, e>>[2] = b /\ <<a, b, c, d, e>>[3] = c
      /\ <<a, b, c, d, e>>[4] = d /\ <<a, b, c, d, e>>[5] = e
  OBVIOUS
<1> QED BY <1>1, <1>3, <1>4

LEMMA ConfiguredIs ==
    ASSUME NEW n
    PROVE  Configured(n) = DOMAIN Override(n) \cup DOMAIN file.service[n].env
                           \cup DOMAIN file.service[n].env_file \cup DOMAIN file.dotenv
<1>1. 1 .. 4 = {1, 2, 3, 4}
  OBVIOUS
<1>2. Configured(n) = DOMAIN Sources(n)[1] \cup DOMAIN Sources(n)[2] \cup DOMAIN Sources(n)[3] \cup DOMAIN Sources(n)[4]
  BY <1>1 DEF Configured
<1> QED BY <1>2, SourcesAre

LEMMA FileFacts ==
    ASSUME file \in Files, Readable(file), NEW n \in Services
    PROVE  /\ IsFile(file) /\ IsVars(file.dotenv) /\ IsVars(file.os)
           /\ file.service[n].deps \subseteq Services
           /\ IsVars(file.service[n].env) /\ IsVars(file.service[n].env_file)
           /\ IsVars(Override(n))
           /\ file.env_name # "" => file.env_name \in DOMAIN file.env_override
<1>1. IsFile(file)
  BY FilesAssumption DEF IsFile, IsSvc
<1>2. /\ IsVars(file.dotenv) /\ IsVars(file.os) /\ file.service[n].deps \subseteq Services
      /\ IsVars(file.service[n].env) /\ IsVars(file.service[n].env_file)
      /\ \A e \in DOMAIN file.env_override : \A m \in DOMAIN file.env_override[e] : IsVars(file.env_override[e][m])
  BY FilesAssumption
<1>3. file.env_name # "" => file.env_name \in DOMAIN file.env_override
  BY DEF Readable
<1>4. IsVars(<<>>)
  BY DEF IsVars
<1> QED BY <1>1, <1>2, <1>3, <1>4 DEF Override

LEMMA VarsFacts ==
    ASSUME NEW os, IsVars(os), NEW env, IsVars(env)
    PROVE  /\ IsVars(ExpandVars(os, env)) /\ DOMAIN ExpandVars(os, env) = DOMAIN env
           /\ \A k \in DOMAIN env : ExpandVars(os, env)[k] = expand_env_func(os, env[k])
           /\ IsVars(InterpolateVars(os, env)) /\ DOMAIN InterpolateVars(os, env) = DOMAIN env
           /\ \A k \in DOMAIN env : InterpolateVars(os, env)[k] = interpolate_env_vars(os, env[k])
<1>1. \A k \in DOMAIN env : env[k] \in Values
  BY DEF IsVars
<1>2. \A k \in DOMAIN env : expand_env_func(os, env[k]) \in Values
  BY <1>1, ExpandFacts
<1>3. \A k \in DOMAIN env : interpolate_env_vars(os, env[k]) \in Values
  BY <1>1, InterpolateFacts
<1>4. PICK x, y : x = ExpandVars(os, env) /\ y = InterpolateVars(os, env)
  OBVIOUS
<1>5. x = [k \in DOMAIN env |-> expand_env_func(os, env[k])]
  BY <1>4 DEF ExpandVars
<1>6. y = [k \in DOMAIN env |-> interpolate_env_vars(os, env[k])]
  BY <1>4 DEF InterpolateVars
<1>7. DOMAIN x = DOMAIN env /\ \A k \in DOMAIN env : x[k] = expand_env_func(os, env[k])
  BY <1>5
<1>8. DOMAIN y = DOMAIN env /\ \A k \in DOMAIN env : y[k] = interpolate_env_vars(os, env[k])
  BY <1>6
<1>9. x = [k \in DOMAIN x |-> x[k]] /\ y = [k \in DOMAIN y |-> y[k]]
  BY <1>5, <1>6
<1>10. IsVars(x) /\ IsVars(y)
  BY <1>2, <1>3, <1>7, <1>8, <1>9 DEF IsVars
<1> QED BY <1>4, <1>7, <1>8, <1>10

\* the variables of n step by step, as from_file_with_env computes them
Vars3(n) == Merged(Merged(ExpandVars(file.os, file.service[n].env), file.service[n].env_file), file.dotenv)
Vars4(n) == InterpolateVars(file.os, Vars3(n))
Vars5(n) == Merged(ExpandVars(file.os, Override(n)), Vars4(n))

SameButVars(s, t) ==
    /\ t.mode = s.mode /\ t.deps = s.deps /\ t.port = s.port /\ t.subdomain = s.subdomain

LEMMA MergedNothing ==
    ASSUME NEW f, IsVars(f), NEW g, DOMAIN g = {}
    PROVE  Merged(g, f) = f
<1>1. f = [k \in DOMAIN f |-> f[k]]
  BY DEF IsVars
<1>2. DOMAIN g \cup DOMAIN f = DOMAIN f
  OBVIOUS
<1> QED BY <1>1, <1>2 DEF Merged

LEMMA FileServices ==
    ASSUME file \in Files, Readable(file), NEW c, c = from_file_with_env(file)
    PROVE  /\ c = [n \in Services |-> c[n]]
           /\ \A n \in Services : IsSvc(c[n]) /\ SameButVars(file.service[n], c[n]) /\ c[n].env = Vars5(n)
<1>1. PICK f1, f2, f3, f4, f5 :
        /\ f1 = ExpandFile(file) /\ f2 = resolve_env_files(f1) /\ f3 = apply_global_dotenv(f2)
        /\ f4 = apply_interpolation(f3) /\ f5 = apply_env_override(f4)
  OBVIOUS
<1>2. c = f5.service
  BY <1>1 DEF from_file_with_env
<1>3. IsFile(file)
  BY FilesAssumption DEF IsFile, IsSvc
<1>4. /\ Loads(file, f1)
      /\ \A n \in Services : f1.service[n].env = ExpandVars(file.os, file.service[n].env)
      /\ f1.env_override = [e \in DOMAIN file.env_override |-> [n \in DOMAIN file.env_override[e] |->
                                    ExpandVars(file.os, file.env_override[e][n])]]
  BY <1>1, <1>3, ExpandStep
<1>5. /\ Loads(f1, f2) /\ f2.env_override = f1.env_override
      /\ \A n \in Services : f2.service[n].env = Merged(f1.service[n].env, f1.service[n].env_file)
  <2>1. IsFile(f1)
    BY <1>4 DEF Loads
  <2> QED BY <1>1, <2>1, EnvFilesStep
<1>6. /\ Loads(f2, f3) /\ f3.env_override = f2.env_override
      /\ \A n \in Services : f3.service[n].env = Merged(f2.service[n].env, f2.dotenv)
  <2>1. IsFile(f2)
    BY <1>5 DEF Loads
  <2> QED BY <1>1, <2>1, DotenvStep
<1>7. /\ Loads(f3, f4) /\ f4.env_override = f3.env_override
      /\ \A n \in Services : f4.service[n].env = InterpolateVars(f3.os, f3.service[n].env)
  <2>1. IsFile(f3)
    BY <1>6 DEF Loads
  <2> QED BY <1>1, <2>1, InterpolationStep
<1>8. Loads(f4, f5) /\ Overrides(f4, f5)
  <2>1. IsFile(f4) /\ IsTable(f4.service)
    BY <1>7 DEF Loads
  <2> QED BY <1>1, <2>1, OverrideStep
<1>9. c = [n \in Services |-> c[n]] /\ IsFile(f5)
  BY <1>2, <1>8 DEF Loads, IsTable
<1>10. ASSUME NEW n \in Services
       PROVE  IsSvc(c[n]) /\ SameButVars(file.service[n], c[n]) /\ c[n].env = Vars5(n)
  <2>1. IsSvc(c[n])
    BY <1>2, <1>9, <1>10 DEF IsFile
  <2>2. SameButVars(file.service[n], c[n])
    <3>1. SameButVars(file.service[n], f1.service[n])
      BY <1>4, <1>10 DEF Loads, SameButVars
    <3>2. SameButVars(f1.service[n], f2.service[n])
      BY <1>5, <1>10 DEF Loads, SameButVars
    <3>3. SameButVars(f2.service[n], f3.service[n])
      BY <1>6, <1>10 DEF Loads, SameButVars
    <3>4. SameButVars(f3.service[n], f4.service[n])
      BY <1>7, <1>10 DEF Loads, SameButVars
    <3>5. SameButVars(f4.service[n], f5.service[n])
      BY <1>8, <1>10 DEF Loads, SameButVars
    <3> QED BY <1>2, <3>1, <3>2, <3>3, <3>4, <3>5 DEF SameButVars
  <2>3. f1.os = file.os /\ f2.os = file.os /\ f3.os = file.os
    BY <1>4, <1>5, <1>6 DEF Loads
  <2>4. f1.service[n].env_file = file.service[n].env_file /\ f2.dotenv = file.dotenv /\ f4.env_name = file.env_name
    BY <1>4, <1>5, <1>6, <1>7, <1>10 DEF Loads
  <2>5. f3.service[n].env = Vars3(n)
    BY <1>4, <1>5, <1>6, <1>10, <2>4 DEF Vars3
  <2>6. f4.service[n].env = Vars4(n)
    BY <1>7, <1>10, <2>3, <2>5 DEF Vars4
  <2>7. /\ IsVars(file.dotenv) /\ IsVars(file.os) /\ IsVars(file.service[n].env)
        /\ IsVars(file.service[n].env_file) /\ IsVars(Override(n))
        /\ file.env_name # "" => file.env_name \in DOMAIN file.env_override
    BY <1>10, FileFacts
  <2>8. IsVars(Vars3(n))
    <3>1. IsVars(ExpandVars(file.os, file.service[n].env))
      BY <2>7, VarsFacts
    <3>2. IsVars(Merged(ExpandVars(file.os, file.service[n].env), file.service[n].env_file))
      BY <2>7, <3>1, MergedFacts
    <3> QED BY <2>7, <3>2, MergedFacts DEF Vars3
  <2>9. IsVars(Vars4(n))
    BY <2>7, <2>8, VarsFacts DEF Vars4
  <2>10. f4.env_override = f1.env_override
    BY <1>5, <1>6, <1>7
  <2>11. CASE file.env_name # "" /\ n \in DOMAIN file.env_override[file.env_name]
    <3>1. PICK e : e = file.env_name
      OBVIOUS
    <3>2. e \in DOMAIN file.env_override /\ n \in DOMAIN file.env_override[e] /\ Override(n) = file.env_override[e][n]
      BY <2>7, <2>11, <3>1 DEF Override
    <3>3. f1.env_override[e] = [m \in DOMAIN file.env_override[e] |-> ExpandVars(file.os, file.env_override[e][m])]
      BY <1>4, <3>2
    <3>4. n \in DOMAIN f1.env_override[e] /\ f1.env_override[e][n] = ExpandVars(file.os, Override(n))
      BY <3>2, <3>3
    <3>5. f5.service[n].env = Merged(f4.env_override[e][n], f4.service[n].env)
      BY <1>8, <1>10, <2>4, <2>10, <2>11, <3>1, <3>4 DEF Overrides
    <3> QED BY <1>2, <2>1, <2>2, <2>6, <2>10, <3>4, <3>5 DEF Vars5
  <2>12. CASE ~(file.env_name # "" /\ n \in DOMAIN file.env_override[file.env_name])
    <3>1. f4.env_name = "" \/ n \notin DOMAIN f4.env_override[f4.env_name]
      <4>1. CASE file.env_name = ""
        BY <2>4, <4>1
      <4>2. CASE file.env_name # ""
        <5>1. PICK e : e = file.env_name
          OBVIOUS
        <5>2. e \in DOMAIN file.env_override /\ n \notin DOMAIN file.env_override[e]
          BY <2>7, <2>12, <4>2, <5>1
        <5>3. f1.env_override[e] = [m \in DOMAIN file.env_override[e] |-> ExpandVars(file.os, file.env_override[e][m])]
          BY <1>4, <5>2
        <5> QED BY <2>4, <2>10, <5>1, <5>2, <5>3
      <4> QED BY <4>1, <4>2
    <3>2. c[n].env = Vars4(n)
      BY <1>2, <1>8, <1>10, <2>6, <3>1 DEF Overrides
    <3>3. Override(n) = <<>> /\ DOMAIN <<>> = {}
      <4>1. Override(n) = <<>>
        BY <2>12, Zenon DEF Override
      <4> QED BY <4>1
    <3>4. DOMAIN ExpandVars(file.os, Override(n)) = {}
      BY <3>3 DEF ExpandVars
    <3>5. Merged(ExpandVars(file.os, Override(n)), Vars4(n)) = Vars4(n)
      BY <2>9, <3>4, MergedNothing
    <3> QED BY <2>1, <2>2, <3>2, <3>5 DEF Vars5
  <2> QED BY <2>11, <2>12
<1> QED BY <1>9, <1>10

\* the variables of a service are those that some source defines, and each
\* has the value from the first source that defines it
LEMMA Precedence ==
    ASSUME file \in Files, Readable(file), NEW c, c = from_file_with_env(file), NEW n \in Services
    PROVE  /\ IsVars(c[n].env) /\ DOMAIN c[n].env = Configured(n)
           /\ \A k \in Configured(n) : c[n].env[k] = Expected(n, k)
           /\ c[n].deps \subseteq Services
<1>1. /\ IsVars(file.dotenv) /\ IsVars(file.os) /\ IsVars(file.service[n].env)
      /\ IsVars(file.service[n].env_file) /\ IsVars(Override(n)) /\ file.service[n].deps \subseteq Services
  BY FileFacts
<1>2. c[n].env = Vars5(n) /\ c[n].deps = file.service[n].deps
  BY FileServices DEF SameButVars
<1>3. PICK os, o, e, f, d, o1, e1, e2, e3, e4, e5 :
        /\ os = file.os /\ o = Override(n) /\ e = file.service[n].env /\ f = file.service[n].env_file /\ d = file.dotenv
        /\ o1 = ExpandVars(os, o) /\ e1 = ExpandVars(os, e) /\ e2 = Merged(e1, f) /\ e3 = Merged(e2, d)
        /\ e4 = InterpolateVars(os, e3) /\ e5 = Merged(o1, e4)
  OBVIOUS
<1>4. c[n].env = e5
  BY <1>2, <1>3 DEF Vars5, Vars4, Vars3
<1>5. IsVars(os) /\ IsVars(o) /\ IsVars(e) /\ IsVars(f) /\ IsVars(d)
  BY <1>1, <1>3
<1>6. IsVars(o1) /\ DOMAIN o1 = DOMAIN o /\ \A k \in DOMAIN o : o1[k] = expand_env_func(os, o[k])
  BY <1>3, <1>5, VarsFacts
<1>7. IsVars(e1) /\ DOMAIN e1 = DOMAIN e /\ \A k \in DOMAIN e : e1[k] = expand_env_func(os, e[k])
  BY <1>3, <1>5, VarsFacts
<1>8. /\ IsVars(e2) /\ DOMAIN e2 = DOMAIN e1 \cup DOMAIN f
      /\ \A k \in DOMAIN e1 : e2[k] = e1[k]
      /\ \A k \in DOMAIN f : k \notin DOMAIN e1 => e2[k] = f[k]
  <2>1. e2 = Merged(e1, f)
    BY <1>3
  <2>2. IsMerge(e2, e1, f)
    BY <2>1, MergedVars
  <2> QED BY <1>5, <1>7, <2>2 DEF IsMerge
<1>9. /\ IsVars(e3) /\ DOMAIN e3 = DOMAIN e2 \cup DOMAIN d
      /\ \A k \in DOMAIN e2 : e3[k] = e2[k]
      /\ \A k \in DOMAIN d : k \notin DOMAIN e2 => e3[k] = d[k]
  <2>1. e3 = Merged(e2, d)
    BY <1>3
  <2>2. IsMerge(e3, e2, d)
    BY <2>1, MergedVars
  <2> QED BY <1>5, <1>8, <2>2 DEF IsMerge
<1>10. IsVars(e4) /\ DOMAIN e4 = DOMAIN e3 /\ \A k \in DOMAIN e3 : e4[k] = interpolate_env_vars(os, e3[k])
  BY <1>3, <1>5, <1>9, VarsFacts
<1>11. /\ IsVars(e5) /\ DOMAIN e5 = DOMAIN o1 \cup DOMAIN e4
       /\ \A k \in DOMAIN o1 : e5[k] = o1[k]
       /\ \A k \in DOMAIN e4 : k \notin DOMAIN o1 => e5[k] = e4[k]
  <2>1. e5 = Merged(o1, e4)
    BY <1>3
  <2>2. IsMerge(e5, o1, e4)
    BY <2>1, MergedVars
  <2> QED BY <1>6, <1>10, <2>2 DEF IsMerge
<1>12. Configured(n) = DOMAIN o \cup DOMAIN e \cup DOMAIN f \cup DOMAIN d
  BY <1>3, ConfiguredIs
<1>13. DOMAIN e5 = Configured(n)
  BY <1>6, <1>7, <1>8, <1>9, <1>10, <1>11, <1>12
<1>14. ASSUME NEW k \in Configured(n) PROVE e5[k] = Expected(n, k)
  <2>0. /\ Sources(n)[1] = o /\ Sources(n)[2] = e /\ Sources(n)[3] = f /\ Sources(n)[4] = d
    BY <1>3, SourcesAre
  <2>1. CASE k \in DOMAIN o
    <3>1. First(n, k, 1)
      BY <2>0, <2>1 DEF First
    <3>2. ValueFrom(n, k, 1) = expand_env_func(os, o[k])
      BY <1>3, <2>0 DEF ValueFrom
    <3> QED BY <1>6, <1>11, <2>1, <3>1, <3>2, ExpectedIs
  <2>2. CASE k \notin DOMAIN o /\ k \in DOMAIN e
    <3>1. First(n, k, 2)
      <4>1. 1 .. (2 - 1) = {1}
        OBVIOUS
      <4> QED BY <2>0, <2>2, <4>1 DEF First
    <3>2. ValueFrom(n, k, 2) = interpolate_env_vars(os, expand_env_func(os, e[k]))
      BY <1>3, <2>0 DEF ValueFrom
    <3>3. e3[k] = expand_env_func(os, e[k]) /\ k \in DOMAIN e3
      BY <1>7, <1>8, <1>9, <2>2
    <3>4. e5[k] = interpolate_env_vars(os, e3[k])
      BY <1>6, <1>10, <1>11, <2>2, <3>3
    <3> QED BY <3>1, <3>2, <3>3, <3>4, ExpectedIs
  <2>3. CASE k \notin DOMAIN o /\ k \notin DOMAIN e /\ k \in DOMAIN f
    <3>1. First(n, k, 3)
      <4>1. 1 .. (3 - 1) = {1, 2}
        OBVIOUS
      <4> QED BY <2>0, <2>3, <4>1 DEF First
    <3>2. ValueFrom(n, k, 3) = interpolate_env_vars(os, f[k])
      BY <1>3, <2>0 DEF ValueFrom
    <3>3. e3[k] = f[k] /\ k \in DOMAIN e3
      BY <1>7, <1>8, <1>9, <2>3
    <3>4. e5[k] = interpolate_env_vars(os, e3[k])
      BY <1>6, <1>10, <1>11, <2>3, <3>3
    <3> QED BY <3>1, <3>2, <3>3, <3>4, ExpectedIs
  <2>4. CASE k \notin DOMAIN o /\ k \notin DOMAIN e /\ k \notin DOMAIN f /\ k \in DOMAIN d
    <3>1. First(n, k, 4)
      <4>1. 1 .. (4 - 1) = {1, 2, 3}
        OBVIOUS
      <4> QED BY <2>0, <2>4, <4>1 DEF First
    <3>2. ValueFrom(n, k, 4) = interpolate_env_vars(os, d[k])
      BY <1>3, <2>0 DEF ValueFrom
    <3>3. e3[k] = d[k] /\ k \in DOMAIN e3
      BY <1>7, <1>8, <1>9, <2>4
    <3>4. e5[k] = interpolate_env_vars(os, e3[k])
      BY <1>6, <1>10, <1>11, <2>4, <3>3
    <3> QED BY <3>1, <3>2, <3>3, <3>4, ExpectedIs
  <2> QED BY <1>12, <2>1, <2>2, <2>3, <2>4
<1> QED BY <1>1, <1>2, <1>4, <1>11, <1>13, <1>14

------------------------------------------------------------------------------
(*************************** The invariant ********************************)

Pids == Procs \cup {NoProc}

IsStart(s) == s = [pc |-> s.pc, port |-> s.port, svc |-> s.svc, pid |-> s.pid]
IsProc(P) == P = [svc |-> P.svc, st |-> P.st, bound |-> P.bound, port |-> P.port, env |-> P.env, argv |-> P.argv]

StartsOK(s) ==
    /\ s = [n \in Services |-> s[n]]
    /\ \A n \in Services : IsStart(s[n]) /\ s[n].pc \in {"idle", "claim", "spawn", "insert"}

ProcsOK(P) ==
    /\ P = [p \in Procs |-> P[p]]
    /\ \A p \in Procs :
        /\ IsProc(P[p])
        /\ P[p].st \in {"none", "run", "dying", "dead", "reaped"}
        /\ P[p].bound \in BOOLEAN

Handles == [state : {"absent", "running", "stopped"}, port : Ports \cup {AutoPort}, pid : Pids]
Recs == [pc : {"none", "wait", "backoff", "insert"}, pid : Pids]

RoutingTypeOK ==
    /\ file \in Files
    /\ phase \in {"load", "up", "failed"}
    /\ plan \in Seq(PlanSteps)
    /\ StartsOK(start)
    /\ handle \in [Services -> Handles]
    /\ ProcsOK(proc)
    /\ rec \in [Procs -> Recs]
    /\ req = [svc |-> req.svc, pid |-> req.pid, port |-> req.port]
    /\ req.pid \in Pids
    /\ mixed \in BOOLEAN

\* before a configuration is loaded, and after that
Fresh ==
    /\ config = [n \in Services |-> NoSvc]
    /\ plan = <<>>
    /\ \A n \in Services : start[n] = Idle /\ handle[n] = NoHandle
    /\ \A p \in Procs : proc[p] = Unborn /\ rec[p] = NoRec
    /\ req = NoReq

Loaded == config = from_file_with_env(file) /\ Readable(file) /\ validate(config)

PhaseInv ==
    /\ Fresh \/ Loaded
    /\ phase = "load" => Fresh
    /\ phase = "up" => Loaded
    /\ \A n \in Services : start[n].pc = "idle" => start[n] = Idle
    /\ phase # "up" => \A n \in Services : start[n] = Idle

\* a process that some task or handle may look at
Alive(p) == p \in Procs /\ proc[p].st \notin {"none", "reaped"}

\* the ports that placeholders are replaced by
PortMaps == UNION {[D -> Ports] : D \in SUBSET Services}

\* P has the environment that spawn_process gives it, ports being M
Resolved(P, M) == P.env = Environ(resolve_service_ports(config[P.svc], M), P.port, file.os)

ProcInv ==
    \A p \in Procs : Alive(p) =>
        /\ proc[p].svc \in Services
        /\ proc[p].port \in Ports
        /\ \E M \in PortMaps : Resolved(proc[p], M)

HandleOK(n) ==
    LET h == handle[n] IN
    /\ h.state # "running" => h.pid = NoProc
    /\ h.state # "absent" => h.port \in Ports
    /\ h.pid # NoProc => Alive(h.pid) /\ proc[h.pid].svc = n /\ proc[h.pid].port = h.port

HandleInv == \A n \in Services : HandleOK(n)

\* from "insert" on there is a process that is not entered in the handle yet
StartOK(n) ==
    LET s == start[n] IN
    /\ s.pc \in {"spawn", "insert"} =>
        s.port \in Ports /\ \E M \in PortMaps : s.svc = resolve_service_ports(config[n], M)
    /\ s.pc = "insert" =>
        /\ Alive(s.pid) /\ rec[s.pid] = NoRec
        /\ proc[s.pid].svc = n /\ proc[s.pid].port = s.port
        /\ proc[s.pid].env = Environ(s.svc, s.port, file.os)

StartInv == \A n \in Services : StartOK(n)

RecOK(p) ==
    LET q == rec[p].pid IN
    /\ rec[p].pc = "none" => rec[p] = NoRec
    /\ rec[p].pc # "none" => Alive(p)
    /\ rec[p].pc = "insert" =>
        /\ Alive(q) /\ rec[q] = NoRec
        /\ proc[q].svc = proc[p].svc /\ proc[q].port = proc[p].port

RecInv == \A p \in Procs : RecOK(p)

\* nobody else is about to enter it
LooseInv ==
    /\ \A m, n \in Services : start[m].pc = "insert" /\ start[n].pc = "insert" /\ start[m].pid = start[n].pid => m = n
    /\ \A p, q \in Procs : rec[p].pc = "insert" /\ rec[q].pc = "insert" /\ rec[p].pid = rec[q].pid => p = q
    /\ \A n \in Services, p \in Procs :
        ~(start[n].pc = "insert" /\ rec[p].pc = "insert" /\ start[n].pid = rec[p].pid)

HoldInv == \A p, q \in Procs : Holds(p) /\ Holds(q) /\ proc[p].port = proc[q].port => p = q

ReqInv ==
    LET P == proc[req.pid] IN
    req.pid # NoProc =>
        /\ P.st # "none"
        /\ Unshared(req.svc) /\ P.st \in {"run", "dying"} => P.port = req.port /\ P.svc = req.svc

\* what holds whatever recovery tasks do
StateInv ==
    /\ RoutingTypeOK /\ PhaseInv /\ ProcInv /\ HandleInv /\ StartInv
    /\ RecInv /\ LooseInv /\ HoldInv /\ ReqInv

Below(n) == Reach([m \in Services |-> config[m].deps], {n})

\* d is n, or n is enabled and needs d
Needs(n, d) == d = n \/ (n \in Enabled(config) /\ d \in Below(n))

Up(n) == handle[n].pid # NoProc \/ start[n].pc # "idle"

PlanForm(p) ==
    /\ Verbs(p, {"start", "stop", "fail"})
    /\ StartsOnce(p)
    /\ StopsSingly(p)
    /\ Has(p, "fail") => p[1].verb = "fail"

\* of the starts that are still to come, one of n is after those of all that
\* n needs
PlanOrder(p) ==
    \A i, j \in DOMAIN p : \A n, d \in Services :
        i <= j /\ At(p, i, "start", n) /\ At(p, j, "start", d) /\ Needs(n, d) => n = d

\* what is up is stopped before something it needs is started, and what is
\* enabled is there or will be
PlanInv ==
    /\ PlanForm(plan) /\ PlanOrder(plan)
    /\ \A j \in DOMAIN plan : \A n, d \in Services : Needs(n, d) /\ At(plan, j, "start", d) /\ Up(n) =>
        \E i \in DOMAIN plan : i < j /\ At(plan, i, "stop", n)
    /\ phase = "up" => \A d \in Enabled(config) :
        \/ handle[d].state # "absent" \/ start[d].pc # "idle" \/ Todo(plan, "start", d) \/ Has(plan, "fail")

\* while n is there, what it needs is, and does not start anew
UpInv ==
    \A n \in Services :
        /\ start[n].pc # "idle" => handle[n].pid = NoProc
        /\ \A d \in Services : Up(n) /\ Needs(n, d) /\ d # n => handle[d].state # "absent" /\ start[d].pc = "idle"

RouteOK(n) ==
    LET sub == config[n].subdomain IN Unshared(n) /\ sub # "" =>
        /\ start[n].pc \in {"spawn", "insert"} => sub \in DOMAIN routes /\ routes[sub] = start[n].port
        /\ handle[n].pid # NoProc => sub \in DOMAIN routes /\ routes[sub] = handle[n].port

RouteInv == \A n \in Services : RouteOK(n)

\* M has the ports that n needs, as they are now, and n's own
Current(n, port, M) ==
    /\ n \in DOMAIN M /\ M[n] = port
    /\ \A d \in Services : Needs(n, d) /\ d # n => d \in DOMAIN M /\ M[d] = handle[d].port

\* placeholders in what start_service is about to spawn, in the process in
\* the handle, and in one that recovery is about to enter in its place
StartCurrent(n) == start[n].pc \in {"spawn", "insert"} =>
    \E M \in PortMaps : start[n].svc = resolve_service_ports(config[n], M) /\ Current(n, start[n].port, M)

HandleCurrent(n) == handle[n].pid # NoProc =>
    \E M \in PortMaps : Resolved(proc[handle[n].pid], M) /\ Current(n, handle[n].port, M)

RecCurrent(p) == rec[p].pc = "insert" /\ handle[proc[p].svc].pid = p =>
    \E M \in PortMaps : Resolved(proc[rec[p].pid], M) /\ Current(proc[p].svc, proc[p].port, M)

RefsInv ==
    /\ \A n \in Services : StartCurrent(n) /\ HandleCurrent(n)
    /\ \A p \in Procs : RecCurrent(p)

\* what holds until a recovery task acts for a process that has been replaced
UnmixedInv == PlanInv /\ UpInv /\ RouteInv /\ RefsInv

RoutingInv == StateInv /\ (~mixed => UnmixedInv)

------------------------------------------------------------------------------
(*********************** Environment of a process *************************)

LEMMA EntryFacts ==
    ASSUME NEW k, NEW v, NEW e, e = Entry(k, v)
    PROVE  DOMAIN e = {k} /\ e[k] = v
  BY DEF Entry

\* v with the placeholders of M replaced
Filled(v, M, val) ==
    /\ DOMAIN v = DOMAIN val
    /\ \A i \in DOMAIN val :
        v[i] = IF val[i].kind = "port" /\ val[i].text \in DOMAIN M THEN Chr(M[val[i].text]) ELSE val[i]

EnvironOf(env, vars_, M, port, os) ==
    /\ DOMAIN env = {"PORT", "HOST"} \cup DOMAIN vars_ \cup DOMAIN os
    /\ env["PORT"] = <<Chr(port)>>
    /\ \A k \in DOMAIN vars_ : k \notin {"PORT", "HOST"} =>
        env[k] = interpolate_service_ports(M, vars_[k]) /\ Filled(env[k], M, vars_[k])
    /\ \A k \in DOMAIN os : k \notin {"PORT", "HOST"} /\ k \notin DOMAIN vars_ => env[k] = os[k]

LEMMA EnvironFacts ==
    ASSUME NEW svc, IsSvc(svc), NEW M, NEW port, NEW os, NEW env,
           env = Environ(resolve_service_ports(svc, M), port, os)
    PROVE  EnvironOf(env, svc.env, M, port, os)
<1>1. PICK r, v : r = resolve_service_ports(svc, M) /\ v = r.env
  OBVIOUS
<1>2. v = [k \in DOMAIN svc.env |-> interpolate_service_ports(M, svc.env[k])]
  <2>1. PICK c, e : /\ c = interpolate_service_ports(M, svc.cmd)
                    /\ e = [k \in DOMAIN svc.env |-> interpolate_service_ports(M, svc.env[k])]
    OBVIOUS
  <2>2. r = [svc EXCEPT !.cmd = c, !.env = e]
    BY <1>1, <2>1 DEF resolve_service_ports
  <2>3. PICK u : u = [svc EXCEPT !.cmd = c]
    OBVIOUS
  <2>4. u = [mode |-> svc.mode, deps |-> svc.deps, port |-> svc.port, subdomain |-> svc.subdomain,
             readable |-> svc.readable, env |-> svc.env, env_file |-> svc.env_file, cmd |-> c]
    BY <2>3 DEF IsSvc
  <2>5. r = [u EXCEPT !.env = e]
    BY <2>2, <2>3
  <2>6. r.env = e
    BY <2>4, <2>5
  <2> QED BY <1>1, <2>1, <2>6
<1>3. PICK a, b, ab, vo : /\ a = Entry("PORT", <<Chr(port)>>) /\ b = Entry("HOST", <<Chr("127.0.0.1")>>)
                          /\ ab = Merged(a, b) /\ vo = Merged(v, os)
  OBVIOUS
<1>4. env = Merged(ab, vo)
  BY <1>1, <1>3 DEF Environ
<1>5. DOMAIN a = {"PORT"} /\ a["PORT"] = <<Chr(port)>> /\ DOMAIN b = {"HOST"}
  BY <1>3, EntryFacts
<1>6. IsMerge(ab, a, b) /\ IsMerge(vo, v, os) /\ IsMerge(env, ab, vo)
  BY <1>3, <1>4, MergedVars
<1>7. DOMAIN ab = {"PORT", "HOST"} /\ ab["PORT"] = <<Chr(port)>>
  BY <1>5, <1>6 DEF IsMerge
<1>8. DOMAIN v = DOMAIN svc.env /\ \A k \in DOMAIN svc.env : v[k] = interpolate_service_ports(M, svc.env[k])
  BY <1>2
<1>9. DOMAIN env = {"PORT", "HOST"} \cup DOMAIN svc.env \cup DOMAIN os /\ env["PORT"] = <<Chr(port)>>
  BY <1>6, <1>7, <1>8 DEF IsMerge
<1>10. ASSUME NEW k \in DOMAIN svc.env, k \notin {"PORT", "HOST"}
       PROVE  env[k] = interpolate_service_ports(M, svc.env[k]) /\ Filled(env[k], M, svc.env[k])
  <2>1. env[k] = vo[k] /\ vo[k] = v[k]
    BY <1>6, <1>7, <1>8, <1>10 DEF IsMerge
  <2>2. env[k] = interpolate_service_ports(M, svc.env[k])
    BY <1>8, <1>10, <2>1
  <2> QED BY <2>2 DEF Filled, interpolate_service_ports
<1>11. ASSUME NEW k \in DOMAIN os, k \notin {"PORT", "HOST"}, k \notin DOMAIN svc.env PROVE env[k] = os[k]
  BY <1>6, <1>7, <1>8, <1>11 DEF IsMerge
<1> QED BY <1>9, <1>10, <1>11 DEF EnvironOf

LEMMA FilledAgrees ==
    ASSUME NEW M \in PortMaps, NEW val \in Values
    PROVE  Agrees(interpolate_service_ports(M, val), val)
<1>1. PICK D \in SUBSET Services : M \in [D -> Ports]
  BY DEF PortMaps
<1>2. PICK v : v = interpolate_service_ports(M, val)
  OBVIOUS
<1>3. PICK m \in Nat : m = Len(val) /\ DOMAIN val = 1 .. m
  BY ValueFacts
<1>4. v = [i \in 1 .. m |-> IF val[i].kind = "port" /\ val[i].text \in DOMAIN M
                             THEN Chr(M[val[i].text]) ELSE val[i]]
  BY <1>2, <1>3 DEF interpolate_service_ports
<1>5. DEFINE T == {v[i] : i \in 1 .. m}
<1>6. v \in [1 .. m -> T]
  BY <1>4
<1>7. Len(v) = m
  <2> HIDE DEF T
  <2> QED BY <1>6
<1>8. ASSUME NEW i \in 1 .. m
      PROVE  v[i] = val[i] \/ (val[i].kind = "port" /\ \E port \in Ports : v[i] = Chr(port))
  <2>1. CASE val[i].kind = "port" /\ val[i].text \in DOMAIN M
    <3>1. M[val[i].text] \in Ports
      BY <1>1, <2>1
    <3>2. v[i] = Chr(M[val[i].text])
      BY <1>4, <1>8, <2>1
    <3> QED BY <2>1, <3>1, <3>2
  <2>2. CASE ~(val[i].kind = "port" /\ val[i].text \in DOMAIN M)
    BY <1>4, <1>8, <2>2
  <2> QED BY <2>1, <2>2
<1>9. Agrees(v, val)
  BY <1>3, <1>7, <1>8 DEF Agrees
<1> QED BY <1>2, <1>9

------------------------------------------------------------------------------
(******************* What the invariant says of requests ******************)

\* a process belongs to a loaded configuration
LEMMA AliveLoaded ==
    ASSUME StateInv, NEW p \in Procs, proc[p].st # "none"
    PROVE  file \in Files /\ Loaded /\ Readable(file)
<1>1. Fresh \/ Loaded
  BY DEF StateInv, PhaseInv
<1>2. ~Fresh
  <2>1. Unborn.st = "none"
    BY DEF Unborn
  <2> QED BY <2>1 DEF Fresh
<1> QED BY <1>1, <1>2 DEF StateInv, RoutingTypeOK, Loaded

LEMMA ConfigFacts ==
    ASSUME file \in Files, Loaded, NEW n \in Services
    PROVE  /\ IsSvc(config[n]) /\ IsVars(config[n].env) /\ IsVars(file.os)
           /\ DOMAIN config[n].env = Configured(n)
           /\ \A k \in Configured(n) : config[n].env[k] = Expected(n, k)
           /\ config[n].deps \subseteq Services
<1>1. Readable(file) /\ config = from_file_with_env(file)
  BY DEF Loaded
<1>2. IsSvc(config[n])
  BY <1>1, FileServices
<1>3. IsVars(file.os)
  BY <1>1, FileFacts
<1> QED BY <1>1, <1>2, <1>3, Precedence

LEMMA InvExact == StateInv => EnvExact
<1> SUFFICES ASSUME StateInv, NEW p \in Procs, proc[p].st \notin {"none", "reaped"}
             PROVE  /\ DOMAIN proc[p].env = Defined(proc[p].svc) \cup {"PORT", "HOST"}
                    /\ proc[p].env["PORT"] = <<Chr(proc[p].port)>>
                    /\ \A k \in Defined(proc[p].svc) \ {"PORT", "HOST"} :
                            Agrees(proc[p].env[k], Expected(proc[p].svc, k))
  BY DEF EnvExact
<1>1. file \in Files /\ Loaded
  BY AliveLoaded
<1>2. PICK n, env, port : n = proc[p].svc /\ env = proc[p].env /\ port = proc[p].port
  OBVIOUS
<1>3. n \in Services /\ \E M \in PortMaps : Resolved(proc[p], M)
  BY <1>2 DEF StateInv, ProcInv, Alive
<1>4. PICK M \in PortMaps : env = Environ(resolve_service_ports(config[n], M), port, file.os)
  BY <1>2, <1>3 DEF Resolved
<1>5. /\ IsSvc(config[n]) /\ IsVars(config[n].env) /\ IsVars(file.os) /\ DOMAIN config[n].env = Configured(n)
      /\ \A k \in Configured(n) : config[n].env[k] = Expected(n, k)
  BY <1>1, <1>3, ConfigFacts
<1>6. EnvironOf(env, config[n].env, M, port, file.os)
  BY <1>4, <1>5, EnvironFacts
<1>7. DOMAIN env = Defined(n) \cup {"PORT", "HOST"} /\ env["PORT"] = <<Chr(port)>>
  BY <1>5, <1>6 DEF EnvironOf, Defined
<1>8. ASSUME NEW k \in Defined(n), k \notin {"PORT", "HOST"} PROVE Agrees(env[k], Expected(n, k))
  <2>1. CASE k \in Configured(n)
    <3>1. env[k] = interpolate_service_ports(M, Expected(n, k))
      BY <1>5, <1>6, <1>8, <2>1 DEF EnvironOf
    <3>2. Expected(n, k) \in Values
      BY <1>5, <2>1 DEF IsVars
    <3> QED BY <3>1, <3>2, FilledAgrees
  <2>2. CASE k \notin Configured(n)
    <3>1. k \in DOMAIN file.os
      BY <1>8, <2>2 DEF Defined
    <3>2. env[k] = file.os[k]
      BY <1>5, <1>6, <1>8, <2>2, <3>1 DEF EnvironOf
    <3>3. First(n, k, 5)
      <4>1. 1 .. (5 - 1) = 1 .. 4
        OBVIOUS
      <4>2. \A h \in 1 .. 4 : k \notin DOMAIN Sources(n)[h]
        BY <2>2 DEF Configured
      <4> QED BY <3>1, <4>1, <4>2, SourcesAre DEF First
    <3>4. Expected(n, k) = file.os[k]
      <4>1. ValueFrom(n, k, 5) = Sources(n)[5][k]
        BY DEF ValueFrom
      <4> QED BY <3>3, <4>1, SourcesAre, ExpectedIs
    <3> QED BY <3>2, <3>4 DEF Agrees
  <2> QED BY <2>1, <2>2
<1> QED BY <1>2, <1>7, <1>8

LEMMA BelowFacts ==
    ASSUME file \in Files, Loaded, NEW n \in Services
    PROVE  /\ n \in Below(n) /\ Below(n) \subseteq Services
           /\ \A d \in Below(n) : config[d].deps \subseteq Below(n)
<1>1. PICK edges : edges = [m \in Services |-> config[m].deps]
  OBVIOUS
<1>2. \A m \in Services : edges[m] = config[m].deps /\ edges[m] \subseteq Services
  BY <1>1, ConfigFacts
<1>3. IsFiniteSet(Services) /\ {n} \in SUBSET Services
  BY RoutingAssumption
<1>4. /\ {n} \subseteq Reach(edges, {n}) /\ Reach(edges, {n}) \subseteq Services
      /\ \A d \in Reach(edges, {n}) : edges[d] \subseteq Reach(edges, {n})
  BY <1>2, <1>3, ReachClosed
<1>5. Below(n) = Reach(edges, {n})
  BY <1>1 DEF Below
<1> QED BY <1>2, <1>4, <1>5

LEMMA InvRefs == RoutingInv => RefsCurrent
<1> SUFFICES ASSUME RoutingInv, NEW n \in Enabled(config), handle[n].pid # NoProc, ~mixed,
                    NEW k \in Configured(n), k \notin {"PORT", "HOST"},
                    NEW i \in DOMAIN Expected(n, k), Expected(n, k)[i].kind = "port",
                    Expected(n, k)[i].text \in Below(n)
             PROVE  proc[handle[n].pid].env[k][i] = Chr(handle[Expected(n, k)[i].text].port)
  BY DEF RefsCurrent, Below
<1>1. PICK p : p = handle[n].pid
  OBVIOUS
<1>2. n \in Services /\ StateInv /\ RefsInv
  BY DEF Enabled, RoutingInv, UnmixedInv
<1>3. Alive(p) /\ proc[p].svc = n /\ proc[p].port = handle[n].port
  BY <1>1, <1>2 DEF StateInv, HandleInv, HandleOK
<1>4. file \in Files /\ Loaded
  BY <1>2, <1>3, AliveLoaded DEF Alive
<1>5. PICK M \in PortMaps : Resolved(proc[p], M) /\ Current(n, handle[n].port, M)
  BY <1>1, <1>2 DEF RefsInv, HandleCurrent
<1>6. /\ IsSvc(config[n]) /\ DOMAIN config[n].env = Configured(n)
      /\ \A x \in Configured(n) : config[n].env[x] = Expected(n, x)
  BY <1>2, <1>4, ConfigFacts
<1>7. PICK env, port : env = proc[p].env /\ port = proc[p].port
  OBVIOUS
<1>8. env = Environ(resolve_service_ports(config[n], M), port, file.os)
  BY <1>3, <1>5, <1>7 DEF Resolved
<1>9. EnvironOf(env, config[n].env, M, port, file.os)
  BY <1>6, <1>8, EnvironFacts
<1>10. PICK want : want = Expected(n, k)
  OBVIOUS
<1>11. Filled(env[k], M, want)
  BY <1>6, <1>9, <1>10 DEF EnvironOf
<1>12. PICK d : d = want[i].text
  OBVIOUS
<1>13. d \in Services
  BY <1>2, <1>4, <1>10, <1>12, BelowFacts
<1>14. d \in DOMAIN M /\ M[d] = handle[d].port
  BY <1>5, <1>10, <1>12, <1>13 DEF Current, Needs
<1>15. env[k][i] = Chr(M[d])
  BY <1>10, <1>11, <1>12, <1>14 DEF Filled
<1> QED BY <1>1, <1>7, <1>10, <1>12, <1>14, <1>15

LEMMA InvReaches == StateInv => RequestReaches
<1> SUFFICES ASSUME StateInv, NEW p, p = req.pid, p # NoProc, Unshared(req.svc), handle[req.svc].pid = p, Holds(p)
             PROVE  Answerer(req.port) = req.svc
  BY DEF RequestReaches
<1>1. p \in Procs
  BY DEF StateInv, RoutingTypeOK, Pids
<1>2. proc[p].port = req.port /\ proc[p].svc = req.svc
  BY DEF StateInv, ReqInv, Holds
<1>3. ~Free(req.port)
  BY <1>1, <1>2 DEF Free
<1>4. PICK q : q = CHOOSE x \in Procs : Holds(x) /\ proc[x].port = req.port
  OBVIOUS
<1>5. q \in Procs /\ Holds(q) /\ proc[q].port = req.port
  BY <1>1, <1>2, <1>4
<1>6. q = p
  BY <1>1, <1>2, <1>5 DEF StateInv, HoldInv
<1> QED BY <1>2, <1>3, <1>4, <1>6 DEF Answerer

------------------------------------------------------------------------------
(************************ What the actions change *************************)

\* the parts of a process that do not change while it lives
Kept(q) == proc'[q].svc = proc[q].svc /\ proc'[q].port = proc[q].port /\ proc'[q].env = proc[q].env

\* only st and bound of P differ in Q
Moved(P, Q) ==
    Q.svc = P.svc /\ Q.port = P.port /\ Q.env = P.env /\ Q.argv = P.argv

LEMMA SetBound ==
    ASSUME NEW P, IsProc(P), NEW Q, Q = [P EXCEPT !.bound = TRUE]
    PROVE  IsProc(Q) /\ Moved(P, Q) /\ Q.st = P.st /\ Q.bound = TRUE
<1>1. Q = [svc |-> P.svc, st |-> P.st, bound |-> TRUE, port |-> P.port, env |-> P.env, argv |-> P.argv]
  BY DEF IsProc
<1> QED BY <1>1 DEF IsProc, Moved

LEMMA SetSt ==
    ASSUME NEW P, IsProc(P), NEW v, NEW Q, Q = [P EXCEPT !.st = v]
    PROVE  IsProc(Q) /\ Moved(P, Q) /\ Q.st = v /\ Q.bound = P.bound
<1>1. Q = [svc |-> P.svc, st |-> v, bound |-> P.bound, port |-> P.port, env |-> P.env, argv |-> P.argv]
  BY DEF IsProc
<1> QED BY <1>1 DEF IsProc, Moved

LEMMA SetDead ==
    ASSUME NEW P, IsProc(P), NEW Q, Q = [P EXCEPT !.st = "dead", !.bound = FALSE]
    PROVE  IsProc(Q) /\ Moved(P, Q) /\ Q.st = "dead" /\ Q.bound = FALSE
<1>1. PICK u : u = [P EXCEPT !.st = "dead"]
  OBVIOUS
<1>2. u = [svc |-> P.svc, st |-> "dead", bound |-> P.bound, port |-> P.port, env |-> P.env, argv |-> P.argv]
  BY <1>1 DEF IsProc
<1>3. Q = [u EXCEPT !.bound = FALSE]
  BY <1>1
<1>4. Q = [svc |-> P.svc, st |-> "dead", bound |-> FALSE, port |-> P.port, env |-> P.env, argv |-> P.argv]
  BY <1>2, <1>3
<1> QED BY <1>4 DEF IsProc, Moved

LEMMA BindFacts ==
    ASSUME ProcsOK(proc), NEW p \in Procs, Bind(p)
    PROVE  /\ ProcsOK(proc')
           /\ proc[p].st = "run" /\ Free(proc[p].port)
           /\ \A q \in Procs : Kept(q) /\ proc'[q].st = proc[q].st
           /\ \A q \in Procs : q # p => proc'[q] = proc[q]
<1>1. PICK Q : Q = [proc[p] EXCEPT !.bound = TRUE]
  OBVIOUS
<1>2. proc' = [proc EXCEPT ![p] = Q]
  BY <1>1 DEF Bind
<1>3. IsProc(proc[p]) /\ proc[p].st \in {"none", "run", "dying", "dead", "reaped"}
  BY DEF ProcsOK
<1>4. IsProc(Q) /\ Moved(proc[p], Q) /\ Q.st = proc[p].st /\ Q.bound = TRUE
  BY <1>1, <1>3, SetBound
<1>5. /\ proc' = [q \in Procs |-> proc'[q]]
      /\ proc'[p] = Q
      /\ \A q \in Procs : q # p => proc'[q] = proc[q]
  BY <1>2 DEF ProcsOK
<1>6. ProcsOK(proc')
  BY <1>3, <1>4, <1>5 DEF ProcsOK
<1>7. \A q \in Procs : Kept(q) /\ proc'[q].st = proc[q].st
  BY <1>4, <1>5 DEF Kept, Moved
<1> QED BY <1>5, <1>6, <1>7 DEF Bind

LEMMA ExitFacts ==
    ASSUME ProcsOK(proc), NEW p \in Procs, Exit(p)
    PROVE  /\ ProcsOK(proc')
           /\ proc[p].st \in {"run", "dying"} /\ proc'[p].st = "dead" /\ Kept(p)
           /\ \A q \in Procs : q # p => proc'[q] = proc[q]
<1>1. PICK Q : Q = [proc[p] EXCEPT !.st = "dead", !.bound = FALSE]
  OBVIOUS
<1>2. proc' = [proc EXCEPT ![p] = Q]
  <2>1. PICK R : R = [proc[p] EXCEPT !.st = "dead"]
    OBVIOUS
  <2>2. PICK u : u = [proc EXCEPT ![p] = R]
    OBVIOUS
  <2>3. proc' = [u EXCEPT ![p].bound = FALSE]
    BY <2>1, <2>2 DEF Exit
  <2>4. u[p] = R
    BY <2>2 DEF ProcsOK
  <2>5. Q = [R EXCEPT !.bound = FALSE]
    BY <1>1, <2>1
  <2> QED BY <2>2, <2>3, <2>4, <2>5 DEF ProcsOK
<1>3. IsProc(proc[p])
  BY DEF ProcsOK
<1>4. IsProc(Q) /\ Moved(proc[p], Q) /\ Q.st = "dead" /\ Q.bound = FALSE
  BY <1>1, <1>3, SetDead
<1>5. /\ proc' = [q \in Procs |-> proc'[q]]
      /\ proc'[p] = Q
      /\ \A q \in Procs : q # p => proc'[q] = proc[q]
  BY <1>2 DEF ProcsOK
<1>6. ProcsOK(proc')
  BY <1>3, <1>4, <1>5 DEF ProcsOK
<1>7. Kept(p)
  BY <1>4, <1>5 DEF Kept, Moved
<1> QED BY <1>4, <1>5, <1>6, <1>7 DEF Exit

LEMMA StopFacts ==
    ASSUME ProcsOK(proc), handle \in [Services -> Handles], NEW n \in Services, Stop(n)
    PROVE  /\ ProcsOK(proc') /\ handle' \in [Services -> Handles]
           /\ \A q \in Procs : Kept(q) /\ proc'[q].bound = proc[q].bound
           /\ \A q \in Procs : proc'[q].st = proc[q].st \/ (proc[q].st = "run" /\ proc'[q].st = "dying")
           /\ \A m \in Services : m # n => handle'[m] = handle[m]
           /\ handle'[n].port = handle[n].port
           /\ handle[n].state = "absent" => handle'[n] = handle[n]
           /\ handle[n].state # "absent" => handle'[n].state = "stopped" /\ handle'[n].pid = NoProc
<1>1. ASSUME NEW q \in Procs
      PROVE  /\ IsProc(proc'[q]) /\ Moved(proc[q], proc'[q]) /\ proc'[q].bound = proc[q].bound
             /\ proc'[q].st = proc[q].st \/ (proc[q].st = "run" /\ proc'[q].st = "dying")
  <2>1. IsProc(proc[q])
    BY <1>1 DEF ProcsOK
  <2>2. proc'[q] = proc[q] \/ (proc[q].st = "run" /\ proc'[q] = [proc[q] EXCEPT !.st = "dying"])
    BY <1>1 DEF Stop
  <2>3. CASE proc'[q] = proc[q]
    BY <2>1, <2>3 DEF Moved
  <2>4. CASE proc[q].st = "run" /\ proc'[q] = [proc[q] EXCEPT !.st = "dying"]
    BY <2>1, <2>4, SetSt
  <2> QED BY <2>2, <2>3, <2>4
<1>2. proc' = [q \in Procs |-> proc'[q]]
  BY DEF Stop
<1>3. ProcsOK(proc')
  BY <1>1, <1>2 DEF ProcsOK
<1>4. \A q \in Procs : Kept(q)
  BY <1>1 DEF Kept, Moved
<1>5. /\ handle' \in [Services -> Handles]
      /\ \A m \in Services : m # n => handle'[m] = handle[m]
      /\ handle'[n].port = handle[n].port
      /\ handle[n].state = "absent" => handle'[n] = handle[n]
      /\ handle[n].state # "absent" => handle'[n].state = "stopped" /\ handle'[n].pid = NoProc
  <2>1. CASE handle[n].state = "absent"
    BY <2>1 DEF Stop
  <2>2. CASE handle[n].state # "absent"
    <3>1. handle' = [handle EXCEPT ![n].state = "stopped", ![n].pid = NoProc]
      BY <2>2 DEF Stop
    <3>2. PICK h : h = handle[n]
      OBVIOUS
    <3>3. h \in Handles
      BY <3>2
    <3>4. handle'[n] = [state |-> "stopped", port |-> h.port, pid |-> NoProc]
      BY <3>1, <3>2, <3>3 DEF Handles
    <3>5. handle'[n] \in Handles
      BY <3>3, <3>4 DEF Handles, Pids
    <3>6. \A m \in Services : m # n => handle'[m] = handle[m]
      BY <3>1
    <3>7. handle' \in [Services -> Handles]
      <4>1. handle' = [m \in Services |-> handle'[m]]
        BY <3>1
      <4> QED BY <3>5, <3>6, <4>1
    <3> QED BY <2>2, <3>2, <3>4, <3>6, <3>7
  <2> QED BY <2>1, <2>2
<1> QED BY <1>1, <1>3, <1>4, <1>5

LEMMA BornFacts ==
    ASSUME ProcsOK(proc), NEW p \in Procs, NEW n, NEW svc, NEW port, Born(p, n, svc, port)
    PROVE  /\ ProcsOK(proc') /\ proc[p].st = "none"
           /\ \A q \in Procs : q # p => proc'[q] = proc[q]
           /\ proc'[p].st = "run" /\ proc'[p].bound = FALSE /\ proc'[p].svc = n /\ proc'[p].port = port
           /\ proc'[p].env = Environ(svc, port, file.os)
<1>1. PICK e, a : e = Environ(svc, port, file.os) /\ a = Argv(svc, port)
  OBVIOUS
<1>2. PICK Q : Q = [svc |-> n, st |-> "run", bound |-> FALSE, port |-> port, env |-> e, argv |-> a]
  OBVIOUS
<1>3. [Unborn EXCEPT !.svc = n, !.st = "run", !.port = port, !.env = e, !.argv = a] = Q
  <2>1. PICK U, u1, u2, u3, u4 :
          /\ U = Unborn
          /\ u1 = [U EXCEPT !.svc = n] /\ u2 = [u1 EXCEPT !.st = "run"]
          /\ u3 = [u2 EXCEPT !.port = port] /\ u4 = [u3 EXCEPT !.env = e]
    OBVIOUS
  <2>2. IsProc(U) /\ U.bound = FALSE
    BY <2>1 DEF Unborn, IsProc
  <2>3. u1 = [svc |-> n, st |-> U.st, bound |-> U.bound, port |-> U.port, env |-> U.env, argv |-> U.argv]
    BY <2>1, <2>2 DEF IsProc
  <2>4. u2 = [svc |-> n, st |-> "run", bound |-> U.bound, port |-> U.port, env |-> U.env, argv |-> U.argv]
    BY <2>1, <2>3
  <2>5. u3 = [svc |-> n, st |-> "run", bound |-> U.bound, port |-> port, env |-> U.env, argv |-> U.argv]
    BY <2>1, <2>4
  <2>6. u4 = [svc |-> n, st |-> "run", bound |-> U.bound, port |-> port, env |-> e, argv |-> U.argv]
    BY <2>1, <2>5
  <2>7. [u4 EXCEPT !.argv = a] = Q
    <3>1. [u4 EXCEPT !.argv = a] =
            [svc |-> n, st |-> "run", bound |-> U.bound, port |-> port, env |-> e, argv |-> a]
      BY <2>6
    <3> QED BY <1>2, <2>2, <3>1, Zenon
  <2>8. [Unborn EXCEPT !.svc = n, !.st = "run", !.port = port, !.env = e, !.argv = a] = [u4 EXCEPT !.argv = a]
    BY <2>1
  <2> QED BY <2>7, <2>8
<1>4. proc' = [proc EXCEPT ![p] = Q]
  BY <1>1, <1>3 DEF Born
<1>5. /\ proc' = [q \in Procs |-> proc'[q]]
      /\ proc'[p] = Q
      /\ \A q \in Procs : q # p => proc'[q] = proc[q]
  BY <1>4 DEF ProcsOK
<1>6. IsProc(Q) /\ Q.st = "run" /\ Q.bound = FALSE /\ Q.svc = n /\ Q.port = port /\ Q.env = e
  BY <1>2 DEF IsProc
<1>7. ProcsOK(proc')
  BY <1>5, <1>6 DEF ProcsOK
<1> QED BY <1>1, <1>5, <1>6, <1>7 DEF Born

LEMMA ReapFacts ==
    ASSUME ProcsOK(proc), NEW p \in Procs, proc' = [proc EXCEPT ![p] = Reaped]
    PROVE  /\ ProcsOK(proc') /\ proc'[p].st = "reaped"
           /\ \A q \in Procs : q # p => proc'[q] = proc[q]
<1>1. PICK Q : Q = [svc |-> "", st |-> "reaped", bound |-> FALSE, port |-> AutoPort, env |-> <<>>, argv |-> <<>>]
  OBVIOUS
<1>2. Reaped = Q
  <2>1. PICK U : U = Unborn
    OBVIOUS
  <2>2. IsProc(U) /\ U.svc = "" /\ U.bound = FALSE /\ U.port = AutoPort /\ U.env = <<>> /\ U.argv = <<>>
    BY <2>1 DEF Unborn, IsProc
  <2>3. Reaped = [U EXCEPT !.st = "reaped"]
    BY <2>1 DEF Reaped
  <2>4. Reaped = [svc |-> U.svc, st |-> "reaped", bound |-> U.bound, port |-> U.port, env |-> U.env, argv |-> U.argv]
    BY <2>2, <2>3 DEF IsProc
  <2> QED BY <1>1, <2>2, <2>4, Zenon
<1>3. /\ proc' = [q \in Procs |-> proc'[q]]
      /\ proc'[p] = Q
      /\ \A q \in Procs : q # p => proc'[q] = proc[q]
  BY <1>2 DEF ProcsOK
<1>4. IsProc(Q) /\ Q.st = "reaped" /\ Q.bound = FALSE
  BY <1>1 DEF IsProc
<1> QED BY <1>3, <1>4 DEF ProcsOK

\* start_service of n has got to s
StartMoves(n, s) ==
    /\ StartsOK(start') /\ start'[n] = s
    /\ \A m \in Services : m # n => start'[m] = start[m]

LEMMA StartMove ==
    ASSUME StartsOK(start), NEW n \in Services, NEW s, IsStart(s),
           s.pc \in {"idle", "claim", "spawn", "insert"}, start' = [start EXCEPT ![n] = s]
    PROVE  StartMoves(n, s)
<1>1. /\ start' = [m \in Services |-> start'[m]]
      /\ start'[n] = s
      /\ \A m \in Services : m # n => start'[m] = start[m]
  BY DEF StartsOK
<1>2. StartsOK(start')
  BY <1>1 DEF StartsOK
<1> QED BY <1>1, <1>2 DEF StartMoves

LEMMA IdleFacts ==
    /\ IsStart(Idle) /\ Idle.pc = "idle"
    /\ \A s : s = [Idle EXCEPT !.pc = "claim"] => IsStart(s) /\ s.pc = "claim"
<1>1. PICK i : i = Idle
  OBVIOUS
<1>2. IsStart(i) /\ i.pc = "idle"
  BY <1>1 DEF Idle, IsStart
<1>3. ASSUME NEW s, s = [i EXCEPT !.pc = "claim"] PROVE IsStart(s) /\ s.pc = "claim"
  <2>1. s = [pc |-> "claim", port |-> i.port, svc |-> i.svc, pid |-> i.pid]
    BY <1>2, <1>3 DEF IsStart
  <2> QED BY <2>1 DEF IsStart
<1> QED BY <1>1, <1>2, <1>3

LEMMA BeginFacts ==
    ASSUME StartsOK(start), BeginStarts
    PROVE  /\ StartsOK(start')
           /\ \A n \in Services : n \in Head(plan).names => start'[n].pc = "claim"
           /\ \A n \in Services : n \notin Head(plan).names => start'[n] = start[n]
<1>1. PICK s : s = [Idle EXCEPT !.pc = "claim"]
  OBVIOUS
<1>2. IsStart(s) /\ s.pc = "claim"
  BY <1>1, IdleFacts
<1>3. start' = [n \in Services |-> IF n \in Head(plan).names THEN s ELSE start[n]]
  BY <1>1 DEF BeginStarts
<1>4. \A n \in Services : n \in Head(plan).names => start'[n] = s
  BY <1>3
<1>5. \A n \in Services : n \notin Head(plan).names => start'[n] = start[n]
  BY <1>3
<1>6. start' = [n \in Services |-> start'[n]]
  BY <1>3
<1>7. StartsOK(start')
  BY <1>2, <1>4, <1>5, <1>6 DEF StartsOK
<1> QED BY <1>2, <1>4, <1>5, <1>7

\* the port that start_service of n takes, and the definition it resolves
Claims(n, port) ==
    /\ port \in Ports
    /\ IF config[n].port = AutoPort THEN Free(port) ELSE port = config[n].port
    /\ Update(n, port)
    /\ StartMoves(n, [pc |-> "spawn", port |-> port, pid |-> start[n].pid,
                      svc |-> resolve_service_ports(config[n], Merged(Entry(n, port), RuntimePorts))])

LEMMA ClaimFacts ==
    ASSUME StartsOK(start), NEW n \in Services, Claim(n)
    PROVE  \E port \in Ports : Claims(n, port)
<1>1. PICK port \in Ports :
        /\ IF config[n].port = AutoPort THEN Free(port) ELSE port = config[n].port
        /\ Update(n, port)
        /\ start' = [start EXCEPT ![n].pc = "spawn", ![n].port = port,
               ![n].svc = resolve_service_ports(config[n], Merged(Entry(n, port), RuntimePorts))]
  BY DEF Claim
<1>2. PICK v : v = resolve_service_ports(config[n], Merged(Entry(n, port), RuntimePorts))
  OBVIOUS
<1>3. PICK s, s1, s2, t1, t2 :
        /\ s = start[n] /\ s1 = [s EXCEPT !.pc = "spawn"] /\ s2 = [s1 EXCEPT !.port = port]
        /\ t1 = [start EXCEPT ![n] = s1] /\ t2 = [t1 EXCEPT ![n] = s2]
  OBVIOUS
<1>4. IsStart(s) /\ start = [m \in Services |-> start[m]]
  BY <1>3 DEF StartsOK
<1>5. s1 = [pc |-> "spawn", port |-> s.port, svc |-> s.svc, pid |-> s.pid]
  BY <1>3, <1>4 DEF IsStart
<1>6. s2 = [pc |-> "spawn", port |-> port, svc |-> s.svc, pid |-> s.pid]
  BY <1>3, <1>5
<1>7. PICK s3 : s3 = [pc |-> "spawn", port |-> port, pid |-> s.pid, svc |-> v]
  OBVIOUS
<1>8. [s2 EXCEPT !.svc = v] = s3
  BY <1>6, <1>7
<1>9. t1 = [start EXCEPT ![n].pc = "spawn"] /\ t1[n] = s1 /\ t1 = [m \in Services |-> t1[m]]
  BY <1>3, <1>4
<1>10. t2 = [t1 EXCEPT ![n].port = port] /\ t2[n] = s2 /\ t2 = [m \in Services |-> t2[m]]
  BY <1>3, <1>9
<1>11. start' = [t2 EXCEPT ![n].svc = v]
  BY <1>1, <1>2, <1>9, <1>10
<1>12. start' = [t2 EXCEPT ![n] = s3]
  BY <1>8, <1>10, <1>11
<1>13. start' = [start EXCEPT ![n] = s3]
  BY <1>3, <1>4, <1>12
<1>14. IsStart(s3) /\ s3.pc = "spawn"
  BY <1>7 DEF IsStart
<1>15. StartMoves(n, s3)
  BY <1>13, <1>14, StartMove
<1> QED BY <1>1, <1>2, <1>3, <1>7, <1>15 DEF Claims

LEMMA SpawnFacts ==
    ASSUME StartsOK(start), NEW n \in Services, NEW p,
           start' = [start EXCEPT ![n].pc = "insert", ![n].pid = p]
    PROVE  StartMoves(n, [pc |-> "insert", port |-> start[n].port, svc |-> start[n].svc, pid |-> p])
<1>1. PICK s, s1, t1 : s = start[n] /\ s1 = [s EXCEPT !.pc = "insert"] /\ t1 = [start EXCEPT ![n] = s1]
  OBVIOUS
<1>2. IsStart(s) /\ start = [m \in Services |-> start[m]]
  BY <1>1 DEF StartsOK
<1>3. s1 = [pc |-> "insert", port |-> s.port, svc |-> s.svc, pid |-> s.pid]
  BY <1>1, <1>2 DEF IsStart
<1>4. PICK s2 : s2 = [pc |-> "insert", port |-> s.port, svc |-> s.svc, pid |-> p]
  OBVIOUS
<1>5. [s1 EXCEPT !.pid = p] = s2
  BY <1>3, <1>4
<1>6. t1 = [start EXCEPT ![n].pc = "insert"] /\ t1[n] = s1
  BY <1>1, <1>2
<1>7. start' = [t1 EXCEPT ![n].pid = p]
  BY <1>6
<1>8. start' = [t1 EXCEPT ![n] = s2]
  BY <1>5, <1>6, <1>7
<1>9. start' = [start EXCEPT ![n] = s2]
  BY <1>1, <1>2, <1>8
<1>10. IsStart(s2) /\ s2.pc = "insert"
  BY <1>4 DEF IsStart
<1>11. StartMoves(n, s2)
  BY <1>9, <1>10, StartMove
<1> QED BY <1>1, <1>4, <1>11

------------------------------------------------------------------------------
(************************* What a step leaves alone ***********************)

\* q goes on
Persists(q) == Alive(q)' /\ Kept(q)

LEMMA PhaseStays ==
    ASSUME PhaseInv, phase # "load", UNCHANGED <<file, config, phase>>, Loaded,
           \A n \in Services : start'[n].pc = "idle" => start'[n] = Idle,
           phase # "up" => \A n \in Services : start'[n] = Idle
    PROVE  PhaseInv'
<1>1. Loaded'
  BY DEF Loaded
<1> QED BY <1>1 DEF PhaseInv

LEMMA ProcStays ==
    ASSUME ProcInv, UNCHANGED <<file, config>>,
           \A q \in Procs : Alive(q)' => Alive(q) /\ Kept(q)
    PROVE  ProcInv'
<1> SUFFICES ASSUME NEW q \in Procs, Alive(q)'
             PROVE  proc'[q].svc \in Services /\ proc'[q].port \in Ports /\ \E M \in PortMaps : Resolved(proc[q], M)'
  BY DEF ProcInv
<1>1. Alive(q) /\ Kept(q)
  OBVIOUS
<1>2. PICK M \in PortMaps : Resolved(proc[q], M)
  BY <1>1 DEF ProcInv
<1>3. Resolved(proc[q], M)'
  BY <1>1, <1>2 DEF Resolved, Kept
<1> QED BY <1>1, <1>2, <1>3 DEF ProcInv, Kept

LEMMA HandleStays ==
    ASSUME NEW n \in Services, HandleOK(n), handle'[n] = handle[n],
           handle[n].pid # NoProc => Persists(handle[n].pid)
    PROVE  HandleOK(n)'
  BY DEF HandleOK, Persists, Kept

LEMMA StartStays ==
    ASSUME NEW n \in Services, StartOK(n), UNCHANGED <<file, config>>, start'[n] = start[n],
           start[n].pc = "insert" => Persists(start[n].pid) /\ rec'[start[n].pid] = rec[start[n].pid]
    PROVE  StartOK(n)'
<1>1. PICK s : s = start[n]
  OBVIOUS
<1>2. s.pc \in {"spawn", "insert"} =>
            s.port \in Ports /\ \E M \in PortMaps : s.svc = resolve_service_ports(config[n], M)
  BY <1>1 DEF StartOK
<1>3. ASSUME s.pc = "insert"
      PROVE  /\ Alive(s.pid)' /\ rec'[s.pid] = NoRec
             /\ proc'[s.pid].svc = n /\ proc'[s.pid].port = s.port
             /\ proc'[s.pid].env = Environ(s.svc, s.port, file.os)
  BY <1>1, <1>3 DEF StartOK, Persists, Kept
<1> QED BY <1>1, <1>2, <1>3 DEF StartOK, Alive

LEMMA RecStays ==
    ASSUME NEW p \in Procs, RecOK(p), rec'[p] = rec[p],
           rec[p].pc # "none" => Persists(p),
           rec[p].pc = "insert" => Persists(rec[p].pid) /\ rec'[rec[p].pid] = rec[rec[p].pid]
    PROVE  RecOK(p)'
  BY DEF RecOK, Persists, Kept, Alive

LEMMA ReqStays ==
    ASSUME ReqInv, UNCHANGED <<req, config>>,
           req.pid # NoProc =>
               /\ proc'[req.pid].st # "none"
               /\ proc'[req.pid].st \in {"run", "dying"} => proc[req.pid].st \in {"run", "dying"} /\ Kept(req.pid)
    PROVE  ReqInv'
<1>1. Unshared(req.svc)' <=> Unshared(req.svc)
  BY DEF Unshared
<1> QED BY <1>1 DEF ReqInv, Kept

LEMMA HoldStays ==
    ASSUME HoldInv, \A q \in Procs : Holds(q)' => Holds(q) /\ proc'[q].port = proc[q].port
    PROVE  HoldInv'
  BY DEF HoldInv

LEMMA Grounded ==
    ASSUME StateInv
    PROVE  /\ file \in Files
           /\ phase = "up" => Loaded /\ phase # "load"
           /\ \A n \in Services : start[n].pc # "idle" => phase = "up" /\ start[n] # Idle
           /\ \A p \in Procs : proc[p].st # "none" => Loaded /\ phase # "load"
<1>1. file \in Files /\ (phase = "up" => Loaded /\ phase # "load")
  BY DEF StateInv, RoutingTypeOK, PhaseInv
<1>2. \A n \in Services : start[n].pc # "idle" => phase = "up" /\ start[n] # Idle
  BY IdleFacts DEF StateInv, PhaseInv
<1>3. Unborn.st = "none"
  BY DEF Unborn
<1>4. \A p \in Procs : proc[p].st # "none" => Loaded /\ phase # "load"
  BY <1>3 DEF StateInv, PhaseInv, Fresh
<1> QED BY <1>1, <1>2, <1>4

LEMMA SamePersists ==
    ASSUME proc' = proc
    PROVE  \A q : (Alive(q)' <=> Alive(q)) /\ (Alive(q) => Persists(q)) /\ Kept(q) /\ (Holds(q)' <=> Holds(q))
  BY DEF Persists, Alive, Kept, Holds

\* a request begins or ends, or a plan is made
LEMMA QuietState ==
    ASSUME StateInv, UNCHANGED <<file, config, phase, start, handle, proc, rec>>, mixed' \in BOOLEAN,
           phase = "up" \/ UNCHANGED <<plan, req>>, plan' \in Seq(PlanSteps), ReqInv', req'.pid \in Pids,
           req' = [svc |-> req'.svc, pid |-> req'.pid, port |-> req'.port]
    PROVE  StateInv'
<1>1. RoutingTypeOK'
  BY DEF StateInv, RoutingTypeOK
<1>2. PhaseInv'
  <2>1. CASE phase = "up"
    BY <2>1, Grounded, PhaseStays DEF StateInv, PhaseInv
  <2>2. CASE UNCHANGED <<plan, req>>
    BY <2>2 DEF StateInv, PhaseInv, Fresh, Loaded
  <2> QED BY <2>1, <2>2
<1>3. \A q : (Alive(q)' <=> Alive(q)) /\ (Alive(q) => Persists(q)) /\ Kept(q) /\ (Holds(q)' <=> Holds(q))
  BY SamePersists
<1>4. ProcInv'
  BY <1>3, ProcStays DEF StateInv
<1>5. HandleInv'
  BY <1>3, HandleStays DEF StateInv, HandleInv, HandleOK
<1>6. StartInv'
  BY <1>3, StartStays DEF StateInv, StartInv, StartOK
<1>7. RecInv'
  BY <1>3, RecStays DEF StateInv, RecInv, RecOK
<1>8. LooseInv'
  BY DEF StateInv, LooseInv
<1>9. HoldInv'
  BY <1>3, HoldStays DEF StateInv
<1> QED BY <1>1, <1>2, <1>4, <1>5, <1>6, <1>7, <1>8, <1>9 DEF StateInv

\* start_service of some services has got further, without a process
LEMMA StartState ==
    ASSUME StateInv, UNCHANGED <<file, config, handle, proc, rec, req>>, mixed' \in BOOLEAN,
           StartsOK(start'), phase' \in {"load", "up", "failed"}, PhaseInv', plan' \in Seq(PlanSteps),
           \A n \in Services : start'[n] = start[n] \/ start'[n].pc \in {"idle", "claim"}
                               \/ (start'[n].pc = "spawn" /\ StartOK(n)')
    PROVE  StateInv'
<1>1. RoutingTypeOK'
  BY DEF StateInv, RoutingTypeOK
<1>3. \A q : (Alive(q)' <=> Alive(q)) /\ (Alive(q) => Persists(q)) /\ Kept(q) /\ (Holds(q)' <=> Holds(q))
  BY SamePersists
<1>4. ProcInv'
  BY <1>3, ProcStays DEF StateInv
<1>5. HandleInv'
  BY <1>3, HandleStays DEF StateInv, HandleInv, HandleOK
<1>6. StartInv'
  <2> SUFFICES ASSUME NEW n \in Services PROVE StartOK(n)'
    BY DEF StartInv
  <2>1. CASE start'[n] = start[n]
    BY <1>3, <2>1, StartStays DEF StateInv, StartInv, StartOK
  <2>2. CASE start'[n].pc \in {"idle", "claim"}
    BY <2>2 DEF StartOK
  <2> QED BY <2>1, <2>2
<1>7. RecInv'
  BY <1>3, RecStays DEF StateInv, RecInv, RecOK
<1>8. LooseInv'
  <2>1. \A n \in Services : start'[n].pc = "insert" => start'[n] = start[n]
    OBVIOUS
  <2> QED BY <2>1 DEF StateInv, LooseInv
<1>9. HoldInv'
  BY <1>3, HoldStays DEF StateInv
<1>10. ReqInv'
  <2>1. req.pid # NoProc => proc[req.pid].st # "none"
    BY DEF StateInv, ReqInv
  <2> QED BY <1>3, <2>1, ReqStays DEF StateInv
<1> QED BY <1>1, <1>4, <1>5, <1>6, <1>7, <1>8, <1>9, <1>10 DEF StateInv

LEMMA BeginState ==
    ASSUME StateInv, BeginStarts
    PROVE  StateInv'
<1>1. phase = "up" /\ plan # <<>> /\ plan \in Seq(PlanSteps) /\ StartsOK(start)
  BY DEF BeginStarts, Quiescent, StateInv, RoutingTypeOK
<1>2. phase # "load" /\ Loaded
  BY <1>1, Grounded
<1>3. /\ StartsOK(start')
      /\ \A n \in Services : n \in Head(plan).names => start'[n].pc = "claim"
      /\ \A n \in Services : n \notin Head(plan).names => start'[n] = start[n]
  BY <1>1, BeginFacts
<1>4. PhaseInv'
  <2>1. \A n \in Services : start'[n].pc = "idle" => start'[n] = Idle
    BY <1>3 DEF StateInv, PhaseInv
  <2> QED BY <1>1, <1>2, <2>1, PhaseStays DEF StateInv, BeginStarts
<1>5. plan' \in Seq(PlanSteps)
  BY <1>1, TailFacts DEF BeginStarts
<1> QED BY <1>1, <1>3, <1>4, <1>5, StartState DEF BeginStarts, StateInv, RoutingTypeOK

LEMMA PanicState ==
    ASSUME StateInv, NEW n \in Services, SpawnPanics(n)
    PROVE  StateInv'
<1>1. start[n].pc # "idle"
  BY DEF SpawnPanics
<1>2. phase # "load" /\ Loaded
  BY <1>1, Grounded
<1>3. start' = [m \in Services |-> Idle] /\ phase' = "failed" /\ plan' = <<>>
  BY DEF SpawnPanics
<1>4. \A m \in Services : start'[m] = Idle /\ start'[m].pc = "idle"
  BY <1>3, IdleFacts
<1>5. StartsOK(start')
  BY <1>3, <1>4, IdleFacts DEF StartsOK
<1>6. PhaseInv'
  <2>1. Loaded'
    BY <1>2 DEF Loaded, SpawnPanics
  <2> QED BY <1>3, <1>4, <2>1 DEF PhaseInv
<1>7. plan' \in Seq(PlanSteps)
  BY <1>3
<1> QED BY <1>3, <1>4, <1>5, <1>6, <1>7, StartState DEF SpawnPanics, StateInv, RoutingTypeOK

\* the ports that start_service and recovery resolve placeholders with
LEMMA RuntimeFacts ==
    ASSUME StateInv
    PROVE  /\ RuntimePorts \in PortMaps
           /\ \A d \in Services : handle[d].state # "absent" =>
                d \in DOMAIN RuntimePorts /\ RuntimePorts[d] = handle[d].port
<1>1. PICK D : D = {m \in Services : handle[m].state # "absent"}
  OBVIOUS
<1>2. PICK r : r = RuntimePorts
  OBVIOUS
<1>3. r = [n \in D |-> handle[n].port]
  BY <1>1, <1>2 DEF RuntimePorts
<1>4. \A n \in D : handle[n].port \in Ports
  BY <1>1 DEF StateInv, HandleInv, HandleOK
<1>5. r \in [D -> Ports] /\ D \in SUBSET Services
  BY <1>1, <1>3, <1>4
<1>6. r \in PortMaps
  BY <1>5 DEF PortMaps
<1>7. \A d \in D : d \in DOMAIN r /\ r[d] = handle[d].port
  BY <1>3
<1> QED BY <1>1, <1>2, <1>6, <1>7

LEMMA ClaimedPorts ==
    ASSUME StateInv, NEW n \in Services, NEW port \in Ports, NEW M, M = Merged(Entry(n, port), RuntimePorts)
    PROVE  /\ M \in PortMaps
           /\ n \in DOMAIN M /\ M[n] = port
           /\ \A d \in Services : handle[d].state # "absent" /\ d # n => d \in DOMAIN M /\ M[d] = handle[d].port
<1>1. PICK e, r : e = Entry(n, port) /\ r = RuntimePorts
  OBVIOUS
<1>2. DOMAIN e = {n} /\ e[n] = port
  BY <1>1, EntryFacts
<1>3. r \in PortMaps /\ \A d \in Services : handle[d].state # "absent" => d \in DOMAIN r /\ r[d] = handle[d].port
  BY <1>1, RuntimeFacts
<1>4. PICK D \in SUBSET Services : r \in [D -> Ports]
  BY <1>3 DEF PortMaps
<1>5. IsMerge(M, e, r)
  BY <1>1, MergedVars
<1>6. DOMAIN M = {n} \cup D /\ M[n] = port
  BY <1>2, <1>4, <1>5 DEF IsMerge
<1>7. \A d \in D : d # n => M[d] = r[d]
  BY <1>2, <1>4, <1>5 DEF IsMerge
<1>8. M = [x \in DOMAIN M |-> M[x]]
  <2>1. M = [x \in DOMAIN e \cup DOMAIN r |-> IF x \in DOMAIN e THEN e[x] ELSE r[x]]
    BY <1>1 DEF Merged
  <2> QED BY <2>1
<1>9. \A x \in {n} \cup D : M[x] \in Ports
  BY <1>4, <1>6, <1>7
<1>10. M \in [{n} \cup D -> Ports] /\ {n} \cup D \in SUBSET Services
  BY <1>6, <1>8, <1>9
<1>11. M \in PortMaps
  BY <1>10 DEF PortMaps
<1> QED BY <1>3, <1>4, <1>6, <1>7, <1>11

LEMMA ClaimState ==
    ASSUME StateInv, NEW n \in Services, Claim(n)
    PROVE  StateInv'
<1>1. start[n].pc = "claim" /\ StartsOK(start)
  BY DEF Claim, StateInv, RoutingTypeOK
<1>2. phase # "load" /\ Loaded /\ phase = "up"
  BY <1>1, Grounded
<1>3. PICK port \in Ports : Claims(n, port)
  BY <1>1, ClaimFacts
<1>4. PICK M : M = Merged(Entry(n, port), RuntimePorts)
  OBVIOUS
<1>5. M \in PortMaps
  BY <1>4, ClaimedPorts
<1>6. PICK s : s = [pc |-> "spawn", port |-> port, pid |-> start[n].pid, svc |-> resolve_service_ports(config[n], M)]
  OBVIOUS
<1>7. StartMoves(n, s)
  BY <1>3, <1>4, <1>6 DEF Claims
<1>8. StartsOK(start') /\ start'[n] = s /\ \A m \in Services : m # n => start'[m] = start[m]
  BY <1>7 DEF StartMoves
<1>9. s.pc = "spawn" /\ s.port = port /\ s.svc = resolve_service_ports(config[n], M)
  BY <1>6
<1>10. StartOK(n)'
  BY <1>5, <1>8, <1>9 DEF StartOK, Claim
<1>11. PhaseInv'
  <2>1. \A m \in Services : start'[m].pc = "idle" => start'[m] = Idle
    BY <1>8, <1>9 DEF StateInv, PhaseInv
  <2> QED BY <1>2, <2>1, PhaseStays DEF StateInv, Claim
<1> QED BY <1>2, <1>8, <1>9, <1>10, <1>11, StartState DEF Claim, StateInv, RoutingTypeOK

\* processes bind their ports, exit and are told to
SameLives(q) ==
    /\ Kept(q) /\ (Alive(q)' <=> Alive(q)) /\ (proc[q].st # "none" => proc'[q].st # "none")
    /\ proc'[q].st \in {"run", "dying"} => proc[q].st \in {"run", "dying"}

LEMMA LivesState ==
    ASSUME StateInv, UNCHANGED <<file, config, phase, start, rec, req, mixed>>, phase # "load", Loaded,
           ProcsOK(proc'), handle' \in [Services -> Handles], plan' \in Seq(PlanSteps),
           \A q \in Procs : SameLives(q), HandleInv', HoldInv'
    PROVE  StateInv'
<1>1. RoutingTypeOK'
  BY DEF StateInv, RoutingTypeOK
<1>2. PhaseInv'
  BY PhaseStays DEF StateInv, PhaseInv
<1>3. \A q : Alive(q) => q \in Procs /\ Persists(q)
  BY DEF SameLives, Persists, Alive
<1>4. ProcInv'
  BY ProcStays DEF StateInv, SameLives
<1>5. StartInv'
  BY <1>3, StartStays DEF StateInv, StartInv, StartOK
<1>6. RecInv'
  BY <1>3, RecStays DEF StateInv, RecInv, RecOK
<1>7. LooseInv'
  BY DEF StateInv, LooseInv
<1>8. ReqInv'
  <2>1. req.pid # NoProc => req.pid \in Procs /\ proc[req.pid].st # "none"
    BY DEF StateInv, ReqInv, RoutingTypeOK, Pids
  <2>2. req.pid # NoProc => SameLives(req.pid)
    BY <2>1
  <2> QED BY <2>1, <2>2, ReqStays DEF StateInv, SameLives
<1> QED BY <1>1, <1>2, <1>4, <1>5, <1>6, <1>7, <1>8 DEF StateInv

LEMMA BindState ==
    ASSUME StateInv, NEW p \in Procs, Bind(p)
    PROVE  StateInv'
<1>1. ProcsOK(proc)
  BY DEF StateInv, RoutingTypeOK
<1>2. /\ ProcsOK(proc')
      /\ proc[p].st = "run" /\ Free(proc[p].port)
      /\ \A q \in Procs : Kept(q) /\ proc'[q].st = proc[q].st
      /\ \A q \in Procs : q # p => proc'[q] = proc[q]
  BY <1>1, BindFacts
<1>3. phase # "load" /\ Loaded
  BY <1>2, Grounded
<1>4. \A q \in Procs : SameLives(q)
  BY <1>2 DEF SameLives, Alive
<1>5. \A q : Alive(q) => Persists(q)
  BY <1>4 DEF SameLives, Persists, Alive
<1>6. HandleInv'
  BY <1>5, HandleStays DEF StateInv, HandleInv, HandleOK, Bind
<1>7. HoldInv'
  <2> SUFFICES ASSUME NEW q \in Procs, NEW r \in Procs, Holds(q)', Holds(r)', proc'[q].port = proc'[r].port, q # r
               PROVE  FALSE
    BY DEF HoldInv
  <2>1. proc[q].port = proc[r].port
    BY <1>2 DEF Kept
  <2>2. \A x \in Procs : x # p /\ Holds(x)' => Holds(x)
    BY <1>2 DEF Holds
  <2>3. CASE q # p /\ r # p
    BY <2>1, <2>2, <2>3 DEF StateInv, HoldInv
  <2>4. CASE q = p
    BY <1>2, <2>1, <2>2, <2>4 DEF Free
  <2>5. CASE r = p
    BY <1>2, <2>1, <2>2, <2>5 DEF Free
  <2> QED BY <2>3, <2>4, <2>5
<1>8. handle' \in [Services -> Handles] /\ plan' \in Seq(PlanSteps)
  BY DEF Bind, StateInv, RoutingTypeOK
<1> QED BY <1>2, <1>3, <1>4, <1>6, <1>7, <1>8, LivesState DEF Bind

LEMMA ExitState ==
    ASSUME StateInv, NEW p \in Procs, Exit(p)
    PROVE  StateInv'
<1>1. ProcsOK(proc)
  BY DEF StateInv, RoutingTypeOK
<1>2. /\ ProcsOK(proc')
      /\ proc[p].st \in {"run", "dying"} /\ proc'[p].st = "dead" /\ Kept(p)
      /\ \A q \in Procs : q # p => proc'[q] = proc[q]
  BY <1>1, ExitFacts
<1>3. phase # "load" /\ Loaded
  BY <1>2, Grounded
<1>4. \A q \in Procs : SameLives(q)
  BY <1>2 DEF SameLives, Alive, Kept
<1>5. \A q : Alive(q) => Persists(q)
  BY <1>4 DEF SameLives, Persists, Alive
<1>6. HandleInv'
  BY <1>5, HandleStays DEF StateInv, HandleInv, HandleOK, Exit
<1>7. HoldInv'
  <2>1. \A q \in Procs : Holds(q)' => Holds(q) /\ proc'[q].port = proc[q].port
    BY <1>2 DEF Holds, Kept
  <2> QED BY <2>1, HoldStays DEF StateInv
<1>8. handle' \in [Services -> Handles] /\ plan' \in Seq(PlanSteps)
  BY DEF Exit, StateInv, RoutingTypeOK
<1> QED BY <1>2, <1>3, <1>4, <1>6, <1>7, <1>8, LivesState DEF Exit

LEMMA StopState ==
    ASSUME StateInv, phase = "up", NEW n \in Services, Stop(n), plan' \in Seq(PlanSteps)
    PROVE  StateInv'
<1>1. ProcsOK(proc) /\ handle \in [Services -> Handles]
  BY DEF StateInv, RoutingTypeOK
<1>2. /\ ProcsOK(proc') /\ handle' \in [Services -> Handles]
      /\ \A q \in Procs : Kept(q) /\ proc'[q].bound = proc[q].bound
      /\ \A q \in Procs : proc'[q].st = proc[q].st \/ (proc[q].st = "run" /\ proc'[q].st = "dying")
      /\ \A m \in Services : m # n => handle'[m] = handle[m]
      /\ handle'[n].port = handle[n].port
      /\ handle[n].state = "absent" => handle'[n] = handle[n]
      /\ handle[n].state # "absent" => handle'[n].state = "stopped" /\ handle'[n].pid = NoProc
  BY <1>1, StopFacts
<1>3. phase # "load" /\ Loaded
  BY Grounded
<1>4. \A q \in Procs : SameLives(q)
  BY <1>2 DEF SameLives, Alive
<1>5. \A q : Alive(q) => Persists(q)
  BY <1>4 DEF SameLives, Persists, Alive
<1>6. HandleInv'
  <2> SUFFICES ASSUME NEW m \in Services PROVE HandleOK(m)'
    BY DEF HandleInv
  <2>1. HandleOK(m)
    BY DEF StateInv, HandleInv
  <2>2. CASE handle'[m] = handle[m]
    BY <1>5, <2>1, <2>2, HandleStays DEF HandleOK
  <2>3. CASE handle'[m] # handle[m]
    <3>1. m = n /\ handle[n].state # "absent"
      BY <1>2, <2>3
    <3> QED BY <1>2, <2>1, <3>1 DEF HandleOK
  <2> QED BY <2>2, <2>3
<1>7. HoldInv'
  <2>1. \A q \in Procs : Holds(q)' => Holds(q) /\ proc'[q].port = proc[q].port
    BY <1>2 DEF Holds, Kept
  <2> QED BY <2>1, HoldStays DEF StateInv
<1> QED BY <1>2, <1>3, <1>4, <1>6, <1>7, LivesState DEF Stop

\* a process is spawned
LEMMA BornState ==
    ASSUME StateInv, UNCHANGED <<file, config, handle, req>>,
           NEW p \in Procs, NEW n \in Services, NEW svc, NEW port \in Ports, Born(p, n, svc, port),
           \E M \in PortMaps : svc = resolve_service_ports(config[n], M)
    PROVE  /\ ProcInv' /\ HandleInv' /\ HoldInv' /\ ReqInv'
           /\ \A q : Alive(q) => q # p /\ Persists(q)
           /\ rec[p] = NoRec /\ Alive(p)' /\ ~Alive(p)
<1>1. ProcsOK(proc)
  BY DEF StateInv, RoutingTypeOK
<1>2. /\ ProcsOK(proc') /\ proc[p].st = "none"
      /\ \A q \in Procs : q # p => proc'[q] = proc[q]
      /\ proc'[p].st = "run" /\ proc'[p].bound = FALSE /\ proc'[p].svc = n /\ proc'[p].port = port
      /\ proc'[p].env = Environ(svc, port, file.os)
  BY <1>1, BornFacts
<1>3. \A q : Alive(q) => q # p /\ Persists(q)
  BY <1>2 DEF Alive, Persists, Kept
<1>4. ~Alive(p) /\ Alive(p)'
  BY <1>2 DEF Alive
<1>5. rec[p] = NoRec
  BY <1>4 DEF StateInv, RecInv, RecOK
<1>6. ProcInv'
  <2> SUFFICES ASSUME NEW q \in Procs, Alive(q)'
               PROVE  proc'[q].svc \in Services /\ proc'[q].port \in Ports /\ \E M \in PortMaps : Resolved(proc[q], M)'
    BY DEF ProcInv
  <2>1. CASE q = p
    <3>1. PICK M \in PortMaps : svc = resolve_service_ports(config[n], M)
      OBVIOUS
    <3>2. Resolved(proc[p], M)'
      BY <1>2, <3>1 DEF Resolved
    <3> QED BY <1>2, <2>1, <3>2
  <2>2. CASE q # p
    <3>1. Alive(q) /\ proc'[q] = proc[q]
      BY <1>2, <2>2 DEF Alive
    <3>2. PICK M \in PortMaps : Resolved(proc[q], M)
      BY <3>1 DEF StateInv, ProcInv
    <3>3. Resolved(proc[q], M)'
      BY <3>1, <3>2 DEF Resolved
    <3> QED BY <3>1, <3>2, <3>3 DEF StateInv, ProcInv
  <2> QED BY <2>1, <2>2
<1>7. HandleInv'
  BY <1>3, HandleStays DEF StateInv, HandleInv, HandleOK
<1>8. HoldInv'
  <2>1. \A q \in Procs : Holds(q)' => Holds(q) /\ proc'[q].port = proc[q].port
    BY <1>2 DEF Holds
  <2> QED BY <2>1, HoldStays DEF StateInv
<1>9. ReqInv'
  <2>1. req.pid # NoProc => req.pid \in Procs /\ proc[req.pid].st # "none"
    BY DEF StateInv, ReqInv, RoutingTypeOK, Pids
  <2>2. req.pid # NoProc => proc'[req.pid] = proc[req.pid] /\ Kept(req.pid)
    BY <1>2, <2>1 DEF Kept
  <2> QED BY <2>1, <2>2, ReqStays DEF StateInv
<1> QED BY <1>3, <1>4, <1>5, <1>6, <1>7, <1>8, <1>9

LEMMA SpawnState ==
    ASSUME StateInv, NEW n \in Services, Spawn(n)
    PROVE  StateInv'
<1>1. start[n].pc = "spawn" /\ StartsOK(start)
  BY DEF Spawn, StateInv, RoutingTypeOK
<1>2. phase # "load" /\ Loaded /\ phase = "up"
  BY <1>1, Grounded
<1>3. PICK p \in Procs : /\ Born(p, n, start[n].svc, start[n].port)
                         /\ start' = [start EXCEPT ![n].pc = "insert", ![n].pid = p]
  BY DEF Spawn
<1>4. start[n].port \in Ports /\ \E M \in PortMaps : start[n].svc = resolve_service_ports(config[n], M)
  BY <1>1 DEF StateInv, StartInv, StartOK
<1>5. PICK svc, port : svc = start[n].svc /\ port = start[n].port
  OBVIOUS
<1>6. /\ ProcInv' /\ HandleInv' /\ HoldInv' /\ ReqInv'
      /\ \A q : Alive(q) => q # p /\ Persists(q)
      /\ rec[p] = NoRec /\ Alive(p)' /\ ~Alive(p)
  <2>1. Born(p, n, svc, port) /\ port \in Ports /\ \E M \in PortMaps : svc = resolve_service_ports(config[n], M)
    BY <1>3, <1>4, <1>5
  <2>2. UNCHANGED <<file, config, handle, req>>
    BY DEF Spawn
  <2> QED BY <2>1, <2>2, BornState
<1>7. ProcsOK(proc)
  BY DEF StateInv, RoutingTypeOK
<1>8. /\ ProcsOK(proc') /\ proc'[p].svc = n /\ proc'[p].port = port /\ proc'[p].env = Environ(svc, port, file.os)
  <2>1. Born(p, n, svc, port)
    BY <1>3, <1>5
  <2> QED BY <1>7, <2>1, BornFacts
<1>9. PICK s : s = [pc |-> "insert", port |-> port, svc |-> svc, pid |-> p]
  OBVIOUS
<1>10. StartMoves(n, s)
  BY <1>1, <1>3, <1>5, <1>9, SpawnFacts
<1>11. StartsOK(start') /\ start'[n] = s /\ \A m \in Services : m # n => start'[m] = start[m]
  BY <1>10 DEF StartMoves
<1>12. s.pc = "insert" /\ s.port = port /\ s.svc = svc /\ s.pid = p
  BY <1>9
<1>13. StartInv'
  <2> SUFFICES ASSUME NEW m \in Services PROVE StartOK(m)'
    BY DEF StartInv
  <2>1. CASE m # n
    BY <1>6, <1>11, <2>1, StartStays DEF StateInv, StartInv, StartOK, Spawn
  <2>2. CASE m = n
    <3>1. file' = file /\ rec' = rec /\ config' = config
      BY DEF Spawn
    <3> QED BY <1>4, <1>5, <1>6, <1>8, <1>11, <1>12, <2>2, <3>1 DEF StartOK, Alive
  <2> QED BY <2>1, <2>2
<1>14. RecInv'
  BY <1>6, RecStays DEF StateInv, RecInv, RecOK, Spawn
<1>15. LooseInv'
  <2>1. \A m \in Services : m # n /\ start[m].pc = "insert" => start[m].pid # p
    BY <1>6 DEF StateInv, StartInv, StartOK
  <2>2. \A q \in Procs : rec[q].pc = "insert" => rec[q].pid # p
    BY <1>6 DEF StateInv, RecInv, RecOK
  <2>3. rec' = rec
    BY DEF Spawn
  <2> QED BY <1>11, <1>12, <2>1, <2>2, <2>3 DEF StateInv, LooseInv
<1>16. PhaseInv'
  <2>1. \A m \in Services : start'[m].pc = "idle" => start'[m] = Idle
    BY <1>11, <1>12 DEF StateInv, PhaseInv
  <2> QED BY <1>2, <2>1, PhaseStays DEF StateInv, Spawn
<1>17. RoutingTypeOK'
  BY <1>8, <1>11 DEF StateInv, RoutingTypeOK, Spawn
<1> QED BY <1>6, <1>13, <1>14, <1>15, <1>16, <1>17 DEF StateInv

LEMMA NoRecFacts == NoRec \in Recs /\ NoRec.pc = "none" /\ NoRec.pid = NoProc
  BY DEF NoRec, Recs, Pids

\* a recovery task moves
LEMMA RecMove ==
    ASSUME rec \in [Procs -> Recs], NEW p \in Procs, NEW v \in {"wait", "backoff"},
           rec' = [rec EXCEPT ![p].pc = v]
    PROVE  /\ rec' \in [Procs -> Recs]
           /\ rec'[p].pc = v
           /\ \A q \in Procs : q # p => rec'[q] = rec[q]
<1>1. PICK r : r = rec[p]
  OBVIOUS
<1>2. r \in Recs
  BY <1>1
<1>3. rec'[p] = [pc |-> v, pid |-> r.pid]
  BY <1>1, <1>2 DEF Recs
<1>4. rec'[p] \in Recs /\ rec'[p].pc = v
  BY <1>2, <1>3 DEF Recs
<1>5. rec' = [q \in Procs |-> rec'[q]] /\ \A q \in Procs : q # p => rec'[q] = rec[q]
  OBVIOUS
<1> QED BY <1>4, <1>5

LEMMA InsertState ==
    ASSUME StateInv, NEW n \in Services, Insert(n)
    PROVE  StateInv'
<1>1. start[n].pc = "insert" /\ StartsOK(start) /\ rec \in [Procs -> Recs] /\ handle \in [Services -> Handles]
  BY DEF Insert, StateInv, RoutingTypeOK
<1>2. phase # "load" /\ Loaded /\ phase = "up"
  BY <1>1, Grounded
<1>3. PICK p, port : p = start[n].pid /\ port = start[n].port
  OBVIOUS
<1>4. Alive(p) /\ p \in Procs /\ rec[p] = NoRec /\ proc[p].svc = n /\ proc[p].port = port /\ port \in Ports
  BY <1>1, <1>3 DEF StateInv, StartInv, StartOK, Alive
<1>5. /\ handle' = [handle EXCEPT ![n] = [state |-> "running", port |-> port, pid |-> p]]
      /\ rec' = [rec EXCEPT ![p].pc = "wait"]
      /\ start' = [start EXCEPT ![n] = Idle]
      /\ UNCHANGED <<file, config, phase, plan, proc, routes, req, issued, mixed>>
  BY <1>3 DEF Insert
<1>6. rec' \in [Procs -> Recs] /\ rec'[p].pc = "wait" /\ \A q \in Procs : q # p => rec'[q] = rec[q]
  BY <1>1, <1>4, <1>5, RecMove
<1>7. StartMoves(n, Idle)
  BY <1>1, <1>5, StartMove, IdleFacts
<1>8. StartsOK(start') /\ start'[n] = Idle /\ start'[n].pc = "idle" /\ \A m \in Services : m # n => start'[m] = start[m]
  BY <1>7, IdleFacts DEF StartMoves
<1>9. PICK h : h = [state |-> "running", port |-> port, pid |-> p]
  OBVIOUS
<1>10. h \in Handles /\ h.state = "running" /\ h.port = port /\ h.pid = p
  BY <1>4, <1>9 DEF Handles, Pids
<1>11. handle' \in [Services -> Handles] /\ handle'[n] = h /\ \A m \in Services : m # n => handle'[m] = handle[m]
  BY <1>1, <1>5, <1>9, <1>10
<1>12. \A q : (Alive(q)' <=> Alive(q)) /\ (Alive(q) => Persists(q)) /\ Kept(q) /\ (Holds(q)' <=> Holds(q))
  BY <1>5, SamePersists
<1>13. ProcInv'
  BY <1>5, <1>12, ProcStays DEF StateInv
<1>14. HandleInv'
  <2> SUFFICES ASSUME NEW m \in Services PROVE HandleOK(m)'
    BY DEF HandleInv
  <2>1. CASE m # n
    BY <1>11, <1>12, <2>1, HandleStays DEF StateInv, HandleInv, HandleOK
  <2>2. CASE m = n
    BY <1>4, <1>5, <1>10, <1>11, <1>12, <2>2 DEF HandleOK
  <2> QED BY <2>1, <2>2
<1>15. StartInv'
  <2> SUFFICES ASSUME NEW m \in Services PROVE StartOK(m)'
    BY DEF StartInv
  <2>1. CASE m # n
    <3>1. StartOK(m) /\ start'[m] = start[m]
      BY <1>8, <2>1 DEF StateInv, StartInv
    <3>2. start[m].pc = "insert" => Persists(start[m].pid) /\ rec'[start[m].pid] = rec[start[m].pid]
      <4> SUFFICES ASSUME start[m].pc = "insert"
                   PROVE  Persists(start[m].pid) /\ rec'[start[m].pid] = rec[start[m].pid]
        OBVIOUS
      <4>1. Alive(start[m].pid)
        BY <3>1 DEF StartOK
      <4>2. start[m].pid \in Procs
        BY <4>1 DEF Alive
      <4>3. start[m].pid # p
        BY <1>1, <1>3, <2>1 DEF StateInv, LooseInv
      <4> QED BY <1>6, <1>12, <4>1, <4>2, <4>3
    <3> QED BY <1>5, <3>1, <3>2, StartStays
  <2>2. CASE m = n
    BY <1>8, <2>2 DEF StartOK
  <2> QED BY <2>1, <2>2
<1>16. RecInv'
  <2> SUFFICES ASSUME NEW q \in Procs PROVE RecOK(q)'
    BY DEF RecInv
  <2>1. CASE q # p
    <3>1. RecOK(q) /\ rec'[q] = rec[q]
      BY <1>6, <2>1 DEF StateInv, RecInv
    <3>2. rec[q].pc # "none" => Persists(q)
      BY <1>12, <3>1 DEF RecOK
    <3>3. rec[q].pc = "insert" => Persists(rec[q].pid) /\ rec'[rec[q].pid] = rec[rec[q].pid]
      <4> SUFFICES ASSUME rec[q].pc = "insert"
                   PROVE  Persists(rec[q].pid) /\ rec'[rec[q].pid] = rec[rec[q].pid]
        OBVIOUS
      <4>1. Alive(rec[q].pid)
        BY <3>1 DEF RecOK
      <4>2. rec[q].pid \in Procs
        BY <4>1 DEF Alive
      <4>3. rec[q].pid # p
        BY <1>1, <1>3 DEF StateInv, LooseInv
      <4> QED BY <1>6, <1>12, <4>1, <4>2, <4>3
    <3> QED BY <3>1, <3>2, <3>3, RecStays
  <2>2. CASE q = p
    BY <1>4, <1>6, <1>12, <2>2 DEF RecOK
  <2> QED BY <2>1, <2>2
<1>17. LooseInv'
  <2>1. \A m \in Services : start'[m].pc = "insert" => start'[m] = start[m]
    BY <1>8
  <2>2. \A q \in Procs : rec'[q].pc = "insert" => rec'[q] = rec[q]
    BY <1>6
  <2> QED BY <2>1, <2>2 DEF StateInv, LooseInv
<1>18. HoldInv'
  BY <1>12, HoldStays, <1>5 DEF StateInv
<1>19. ReqInv'
  <2>1. req.pid # NoProc => proc[req.pid].st # "none"
    BY DEF StateInv, ReqInv
  <2> QED BY <1>5, <1>12, <2>1, ReqStays DEF StateInv
<1>20. PhaseInv'
  <2>1. \A m \in Services : start'[m].pc = "idle" => start'[m] = Idle
    BY <1>8 DEF StateInv, PhaseInv
  <2> QED BY <1>2, <1>5, <2>1, PhaseStays DEF StateInv
<1>21. RoutingTypeOK'
  BY <1>5, <1>6, <1>8, <1>11 DEF StateInv, RoutingTypeOK
<1> QED BY <1>13, <1>14, <1>15, <1>16, <1>17, <1>18, <1>19, <1>20, <1>21 DEF StateInv

\* a task that waits for a process, and one that is not entered yet
LEMMA LooseFacts ==
    ASSUME StateInv, NEW p \in Procs, rec[p].pc # "none"
    PROVE  /\ Alive(p) /\ proc[p].svc \in Services /\ proc[p].port \in Ports
           /\ \A m \in Services : start[m].pc = "insert" =>
                start[m].pid # p /\ start[m].pid \in Procs /\ Alive(start[m].pid)
           /\ \A q \in Procs : rec[q].pc = "insert" => rec[q].pid # p /\ rec[q].pid \in Procs /\ Alive(rec[q].pid)
           /\ \A m \in Services : handle[m].pid = p => m = proc[p].svc /\ handle[m].state = "running"
<1>1. Alive(p)
  BY DEF StateInv, RecInv, RecOK
<1>2. proc[p].svc \in Services /\ proc[p].port \in Ports
  BY <1>1 DEF StateInv, ProcInv
<1>3. rec[p] # NoRec
  BY NoRecFacts
<1>4. \A m \in Services : start[m].pc = "insert" => start[m].pid # p /\ Alive(start[m].pid)
  BY <1>3 DEF StateInv, StartInv, StartOK
<1>5. \A q \in Procs : rec[q].pc = "insert" => rec[q].pid # p /\ Alive(rec[q].pid)
  BY <1>3 DEF StateInv, RecInv, RecOK
<1>6. p # NoProc
  BY DEF Procs, NoProc
<1>7. \A m \in Services : handle[m].pid = p => m = proc[p].svc /\ handle[m].state = "running"
  BY <1>6 DEF StateInv, HandleInv, HandleOK
<1> QED BY <1>1, <1>2, <1>4, <1>5, <1>7 DEF Alive

\* nobody looks at p any more
LEMMA ReapState ==
    ASSUME StateInv, NEW p \in Procs, Alive(p), proc' = [proc EXCEPT ![p] = Reaped],
           UNCHANGED <<file, config, req>>
    PROVE  /\ ProcsOK(proc') /\ ProcInv' /\ HoldInv' /\ ReqInv'
           /\ \A q : Alive(q) /\ q # p => Persists(q)
<1>1. ProcsOK(proc)
  BY DEF StateInv, RoutingTypeOK
<1>2. /\ ProcsOK(proc') /\ proc'[p].st = "reaped"
      /\ \A q \in Procs : q # p => proc'[q] = proc[q]
  BY <1>1, ReapFacts
<1>3. \A q : Alive(q) /\ q # p => Persists(q)
  BY <1>2 DEF Alive, Persists, Kept
<1>4. \A q \in Procs : Alive(q)' => Alive(q) /\ Kept(q)
  BY <1>2 DEF Alive, Kept
<1>5. ProcInv'
  BY <1>4, ProcStays DEF StateInv
<1>6. HoldInv'
  <2>1. \A q \in Procs : Holds(q)' => Holds(q) /\ proc'[q].port = proc[q].port
    BY <1>2 DEF Holds
  <2> QED BY <2>1, HoldStays DEF StateInv
<1>7. ReqInv'
  <2>1. req.pid # NoProc => req.pid \in Procs /\ proc[req.pid].st # "none"
    BY DEF StateInv, ReqInv, RoutingTypeOK, Pids
  <2>2. req.pid # NoProc => /\ proc'[req.pid].st # "none"
                            /\ proc'[req.pid].st \in {"run", "dying"} =>
                                 proc[req.pid].st \in {"run", "dying"} /\ Kept(req.pid)
    BY <1>2, <2>1 DEF Kept
  <2> QED BY <2>2, ReqStays DEF StateInv
<1> QED BY <1>2, <1>3, <1>5, <1>6, <1>7

\* the task of p has moved, or ended, with nobody's process but p gone
LEMMA TaskState ==
    ASSUME StateInv, NEW p \in Procs, rec[p].pc # "none", phase = "up",
           UNCHANGED <<file, config, phase, plan, start, req>>, mixed' \in BOOLEAN,
           ProcsOK(proc'), ProcInv', HoldInv', ReqInv', handle' \in [Services -> Handles], HandleInv',
           rec' \in [Procs -> Recs], RecOK(p)',
           \A q : Alive(q) /\ q # p => Persists(q),
           \A q \in Procs : q # p => rec'[q] = rec[q],
           rec'[p].pc = "insert" => \A q : Alive(q) => rec'[p].pid # q
    PROVE  StateInv'
<1>1. phase # "load" /\ Loaded
  BY Grounded
<1>2. RoutingTypeOK'
  BY DEF StateInv, RoutingTypeOK
<1>3. PhaseInv'
  BY <1>1, PhaseStays DEF StateInv, PhaseInv
<1>4. /\ \A m \in Services : start[m].pc = "insert" =>
           start[m].pid # p /\ start[m].pid \in Procs /\ Alive(start[m].pid)
      /\ \A q \in Procs : rec[q].pc = "insert" => rec[q].pid # p /\ rec[q].pid \in Procs /\ Alive(rec[q].pid)
  BY LooseFacts
<1>5. StartInv'
  <2> SUFFICES ASSUME NEW m \in Services PROVE StartOK(m)'
    BY DEF StartInv
  <2>1. start[m].pc = "insert" => Persists(start[m].pid) /\ rec'[start[m].pid] = rec[start[m].pid]
    BY <1>4
  <2> QED BY <2>1, StartStays DEF StateInv, StartInv
<1>6. RecInv'
  <2> SUFFICES ASSUME NEW q \in Procs, q # p PROVE RecOK(q)'
    BY DEF RecInv
  <2>1. RecOK(q) /\ rec'[q] = rec[q]
    BY DEF StateInv, RecInv
  <2>2. rec[q].pc # "none" => Persists(q)
    BY <2>1 DEF RecOK
  <2>3. rec[q].pc = "insert" => Persists(rec[q].pid) /\ rec'[rec[q].pid] = rec[rec[q].pid]
    BY <1>4
  <2> QED BY <2>1, <2>2, <2>3, RecStays
<1>7. LooseInv'
  <2>1. \A m \in Services : start'[m] = start[m]
    OBVIOUS
  <2>2. \A q \in Procs : rec'[q].pc = "insert" => rec'[q] = rec[q] \/ q = p
    OBVIOUS
  <2>3. \A m, n \in Services :
          start'[m].pc = "insert" /\ start'[n].pc = "insert" /\ start'[m].pid = start'[n].pid => m = n
    BY <2>1 DEF StateInv, LooseInv
  <2>4. \A q, r \in Procs : rec'[q].pc = "insert" /\ rec'[r].pc = "insert" /\ rec'[q].pid = rec'[r].pid => q = r
    BY <1>4, <2>2 DEF StateInv, LooseInv
  <2>5. \A n \in Services, q \in Procs :
          ~(start'[n].pc = "insert" /\ rec'[q].pc = "insert" /\ start'[n].pid = rec'[q].pid)
    BY <1>4, <2>1, <2>2 DEF StateInv, LooseInv
  <2> QED BY <2>3, <2>4, <2>5 DEF LooseInv
<1> QED BY <1>2, <1>3, <1>5, <1>6, <1>7 DEF StateInv

LEMMA RecCheckState ==
    ASSUME StateInv, NEW p \in Procs, RecCheck(p)
    PROVE  StateInv'
<1>1. /\ rec[p].pc = "wait" /\ phase = "up" /\ rec \in [Procs -> Recs] /\ handle \in [Services -> Handles]
      /\ ProcsOK(proc) /\ mixed \in BOOLEAN
      /\ UNCHANGED <<file, config, phase, plan, start, handle, routes, req, issued>>
  BY DEF RecCheck, StateInv, RoutingTypeOK
<1>2. /\ Alive(p) /\ proc[p].svc \in Services
      /\ \A m \in Services : handle[m].pid = p => m = proc[p].svc /\ handle[m].state = "running"
  BY <1>1, LooseFacts
<1>3. CASE handle[proc[p].svc].state = "stopped"
  <2>1. rec' = [rec EXCEPT ![p] = NoRec] /\ proc' = [proc EXCEPT ![p] = Reaped] /\ mixed' = mixed
    BY <1>3 DEF RecCheck
  <2>2. /\ ProcsOK(proc') /\ ProcInv' /\ HoldInv' /\ ReqInv'
        /\ \A q : Alive(q) /\ q # p => Persists(q)
    BY <1>1, <1>2, <2>1, ReapState
  <2>3. rec' \in [Procs -> Recs] /\ rec'[p] = NoRec /\ \A q \in Procs : q # p => rec'[q] = rec[q]
    BY <1>1, <2>1, NoRecFacts
  <2>4. RecOK(p)' /\ rec'[p].pc # "insert"
    BY <2>3, NoRecFacts DEF RecOK
  <2>5. HandleInv'
    <3> SUFFICES ASSUME NEW m \in Services PROVE HandleOK(m)'
      BY DEF HandleInv
    <3>1. HandleOK(m) /\ handle'[m] = handle[m]
      BY <1>1 DEF StateInv, HandleInv
    <3>2. handle[m].pid # p
      BY <1>2, <1>3
    <3>3. handle[m].pid # NoProc => Persists(handle[m].pid)
      BY <2>2, <3>1, <3>2 DEF HandleOK
    <3> QED BY <3>1, <3>3, HandleStays
  <2> QED BY <1>1, <2>1, <2>2, <2>3, <2>4, <2>5, TaskState
<1>4. CASE handle[proc[p].svc].state # "stopped"
  <2>1. rec' = [rec EXCEPT ![p].pc = "backoff"] /\ proc' = proc /\ mixed' \in BOOLEAN
    BY <1>1, <1>4 DEF RecCheck, Mixed
  <2>2. \A q : (Alive(q)' <=> Alive(q)) /\ (Alive(q) => Persists(q)) /\ Kept(q) /\ (Holds(q)' <=> Holds(q))
    BY <2>1, SamePersists
  <2>3. ProcsOK(proc') /\ ProcInv' /\ HoldInv'
    BY <1>1, <2>1, <2>2, ProcStays, HoldStays DEF StateInv
  <2>4. ReqInv'
    <3>1. req.pid # NoProc => proc[req.pid].st # "none"
      BY DEF StateInv, ReqInv
    <3> QED BY <1>1, <2>1, <2>2, <3>1, ReqStays DEF StateInv
  <2>5. rec' \in [Procs -> Recs] /\ rec'[p].pc = "backoff" /\ \A q \in Procs : q # p => rec'[q] = rec[q]
    BY <1>1, <2>1, RecMove
  <2>6. RecOK(p)' /\ rec'[p].pc # "insert"
    BY <1>2, <2>2, <2>5 DEF RecOK
  <2>7. HandleInv'
    BY <1>1, <2>2, HandleStays DEF StateInv, HandleInv, HandleOK
  <2> QED BY <1>1, <2>1, <2>2, <2>3, <2>4, <2>5, <2>6, <2>7, TaskState
<1> QED BY <1>3, <1>4

LEMMA RecSpawnState ==
    ASSUME StateInv, NEW p \in Procs, RecSpawn(p)
    PROVE  StateInv'
<1>1. /\ rec[p].pc = "backoff" /\ phase = "up" /\ rec \in [Procs -> Recs] /\ handle \in [Services -> Handles]
      /\ ProcsOK(proc) /\ mixed \in BOOLEAN /\ mixed' \in BOOLEAN
      /\ UNCHANGED <<file, config, phase, plan, start, handle, req, issued>>
  BY DEF RecSpawn, StateInv, RoutingTypeOK, Mixed
<1>2. Alive(p) /\ proc[p].svc \in Services /\ proc[p].port \in Ports
  BY <1>1, LooseFacts
<1>3. PICK q \in Procs :
        /\ Born(q, proc[p].svc, resolve_service_ports(config[proc[p].svc], RuntimePorts), proc[p].port)
        /\ rec' = [rec EXCEPT ![p] = [pc |-> "insert", pid |-> q]]
  BY DEF RecSpawn
<1>4. PICK n, svc, port : n = proc[p].svc /\ port = proc[p].port /\ svc = resolve_service_ports(config[n], RuntimePorts)
  OBVIOUS
<1>5. n \in Services /\ port \in Ports
  BY <1>2, <1>4
<1>6. Born(q, n, svc, port)
  BY <1>3, <1>4
<1>7. /\ ProcInv' /\ HandleInv' /\ HoldInv' /\ ReqInv'
      /\ \A r : Alive(r) => r # q /\ Persists(r)
      /\ rec[q] = NoRec /\ Alive(q)' /\ ~Alive(q)
  <2>1. \E M \in PortMaps : svc = resolve_service_ports(config[n], M)
    BY <1>4, RuntimeFacts
  <2>2. Loaded
    BY <1>1, Grounded
  <2> QED BY <1>1, <1>5, <1>6, <2>1, <2>2, BornState
<1>8. ProcsOK(proc') /\ proc'[q].svc = n /\ proc'[q].port = port
  BY <1>1, <1>6, BornFacts
<1>9. PICK v : v = [pc |-> "insert", pid |-> q]
  OBVIOUS
<1>10. v \in Recs /\ v.pc = "insert" /\ v.pid = q
  BY <1>9 DEF Recs, Pids
<1>11. rec' \in [Procs -> Recs] /\ rec'[p] = v /\ \A r \in Procs : r # p => rec'[r] = rec[r]
  BY <1>1, <1>3, <1>9, <1>10
<1>12. q # p /\ Persists(p)
  BY <1>2, <1>7
<1>13. RecOK(p)'
  <2>1. Alive(p)' /\ proc'[p].svc = n /\ proc'[p].port = port
    BY <1>4, <1>12 DEF Persists, Kept
  <2>2. rec'[q] = NoRec
    BY <1>7, <1>11, <1>12
  <2> QED BY <1>7, <1>8, <1>10, <1>11, <2>1, <2>2 DEF RecOK, Alive
<1>14. rec'[p].pc = "insert" => \A r : Alive(r) => rec'[p].pid # r
  BY <1>7, <1>10, <1>11
<1>15. \A r : Alive(r) /\ r # p => Persists(r)
  BY <1>7
<1> QED BY <1>1, <1>7, <1>8, <1>11, <1>13, <1>14, <1>15, TaskState

LEMMA RecInsertState ==
    ASSUME StateInv, NEW p \in Procs, RecInsert(p)
    PROVE  StateInv'
<1>1. /\ rec[p].pc = "insert" /\ phase = "up" /\ rec \in [Procs -> Recs] /\ handle \in [Services -> Handles]
      /\ ProcsOK(proc) /\ mixed \in BOOLEAN /\ mixed' \in BOOLEAN
      /\ UNCHANGED <<file, config, phase, plan, start, routes, req, issued>>
  BY DEF RecInsert, StateInv, RoutingTypeOK, Mixed
<1>2. /\ Alive(p) /\ proc[p].svc \in Services /\ proc[p].port \in Ports
      /\ \A m \in Services : start[m].pc = "insert" =>
           start[m].pid # p /\ start[m].pid \in Procs /\ Alive(start[m].pid)
      /\ \A q \in Procs : rec[q].pc = "insert" => rec[q].pid # p /\ rec[q].pid \in Procs /\ Alive(rec[q].pid)
      /\ \A m \in Services : handle[m].pid = p => m = proc[p].svc /\ handle[m].state = "running"
  BY <1>1, LooseFacts
<1>3. PICK q, n, port : q = rec[p].pid /\ n = proc[p].svc /\ port = proc[p].port
  OBVIOUS
<1>4. /\ n \in Services /\ port \in Ports /\ q \in Procs /\ q # p /\ Alive(q)
      /\ rec[q] = NoRec /\ proc[q].svc = n /\ proc[q].port = port
  BY <1>1, <1>2, <1>3 DEF StateInv, RecInv, RecOK
<1>5. /\ handle' = [handle EXCEPT ![n] = [state |-> "running", port |-> port, pid |-> q]]
      /\ rec' = [rec EXCEPT ![p] = NoRec, ![q].pc = "wait"]
      /\ proc' = [proc EXCEPT ![p] = Reaped]
  BY <1>3, <1>4 DEF RecInsert
<1>6. /\ ProcsOK(proc') /\ ProcInv' /\ HoldInv' /\ ReqInv'
      /\ \A r : Alive(r) /\ r # p => Persists(r)
  BY <1>1, <1>2, <1>5, ReapState
<1>7. rec' \in [Procs -> Recs] /\ rec'[p] = NoRec /\ rec'[q].pc = "wait"
      /\ \A r \in Procs : r # p /\ r # q => rec'[r] = rec[r]
  <2>1. PICK t, w : t = [rec EXCEPT ![p] = NoRec] /\ w = [t EXCEPT ![q].pc = "wait"]
    OBVIOUS
  <2>2. t \in [Procs -> Recs] /\ t[p] = NoRec /\ t[q] = NoRec /\ \A r \in Procs : r # p => t[r] = rec[r]
    BY <1>1, <1>4, <2>1, NoRecFacts
  <2>3. rec' = w
    BY <1>5, <2>1
  <2>4. PICK v : v = [pc |-> "wait", pid |-> NoProc]
    OBVIOUS
  <2>5. w = [t EXCEPT ![q] = v]
    <3>1. PICK z : z = t[q]
      OBVIOUS
    <3>2. z = [pc |-> "none", pid |-> NoProc]
      BY <2>2, <3>1 DEF NoRec
    <3>3. [z EXCEPT !.pc = "wait"] = v
      BY <2>4, <3>2
    <3> QED BY <1>4, <2>1, <2>2, <3>1, <3>3
  <2>6. v \in Recs /\ v.pc = "wait"
    BY <2>4 DEF Recs, Pids
  <2> QED BY <1>4, <2>2, <2>3, <2>5, <2>6
<1>8. PICK h : h = [state |-> "running", port |-> port, pid |-> q]
  OBVIOUS
<1>9. h \in Handles /\ h.state = "running" /\ h.port = port /\ h.pid = q
  BY <1>4, <1>8 DEF Handles, Pids
<1>10. handle' \in [Services -> Handles] /\ handle'[n] = h /\ \A m \in Services : m # n => handle'[m] = handle[m]
  BY <1>1, <1>4, <1>5, <1>8, <1>9
<1>11. Persists(q)
  BY <1>4, <1>6
<1>12. HandleInv'
  <2> SUFFICES ASSUME NEW m \in Services PROVE HandleOK(m)'
    BY DEF HandleInv
  <2>1. CASE m # n
    <3>1. HandleOK(m) /\ handle'[m] = handle[m] /\ handle[m].pid # p
      BY <1>2, <1>3, <1>10, <2>1 DEF StateInv, HandleInv
    <3>2. handle[m].pid # NoProc => Persists(handle[m].pid)
      BY <1>6, <3>1 DEF HandleOK
    <3> QED BY <3>1, <3>2, HandleStays
  <2>2. CASE m = n
    <3>1. Alive(q)' /\ proc'[q].svc = n /\ proc'[q].port = port
      BY <1>4, <1>11 DEF Persists, Kept
    <3> QED BY <1>4, <1>9, <1>10, <2>2, <3>1 DEF HandleOK, Alive
  <2> QED BY <2>1, <2>2
<1>13. phase # "load" /\ Loaded
  BY <1>1, Grounded
<1>14. RoutingTypeOK'
  BY <1>1, <1>6, <1>7, <1>10 DEF StateInv, RoutingTypeOK
<1>15. PhaseInv'
  BY <1>1, <1>13, PhaseStays DEF StateInv, PhaseInv
<1>16. \A m \in Services : start[m].pc = "insert" => start[m].pid # q
  BY <1>1, <1>3 DEF StateInv, LooseInv
<1>17. \A r \in Procs : r # p /\ rec[r].pc = "insert" => rec[r].pid # q
  BY <1>1, <1>3 DEF StateInv, LooseInv
<1>18. StartInv'
  <2> SUFFICES ASSUME NEW m \in Services PROVE StartOK(m)'
    BY DEF StartInv
  <2>1. start[m].pc = "insert" => Persists(start[m].pid) /\ rec'[start[m].pid] = rec[start[m].pid]
    BY <1>2, <1>6, <1>7, <1>16
  <2> QED BY <1>1, <2>1, StartStays DEF StateInv, StartInv
<1>19. RecInv'
  <2> SUFFICES ASSUME NEW r \in Procs PROVE RecOK(r)'
    BY DEF RecInv
  <2>1. CASE r = p
    BY <1>7, <2>1, NoRecFacts DEF RecOK
  <2>2. CASE r = q
    BY <1>7, <1>11, <2>2 DEF RecOK, Persists
  <2>3. CASE r # p /\ r # q
    <3>1. RecOK(r) /\ rec'[r] = rec[r]
      BY <1>7, <2>3 DEF StateInv, RecInv
    <3>2. rec[r].pc # "none" => Persists(r)
      BY <1>6, <2>3, <3>1 DEF RecOK
    <3>3. rec[r].pc = "insert" => Persists(rec[r].pid) /\ rec'[rec[r].pid] = rec[rec[r].pid]
      BY <1>2, <1>6, <1>7, <1>17, <2>3
    <3> QED BY <3>1, <3>2, <3>3, RecStays
  <2> QED BY <2>1, <2>2, <2>3
<1>20. LooseInv'
  <2>1. \A m \in Services : start'[m] = start[m]
    BY <1>1
  <2>2. \A r \in Procs : rec'[r].pc = "insert" => rec'[r] = rec[r]
    BY <1>4, <1>7, NoRecFacts
  <2> QED BY <2>1, <2>2 DEF StateInv, LooseInv
<1> QED BY <1>6, <1>12, <1>14, <1>15, <1>18, <1>19, <1>20 DEF StateInv

------------------------------------------------------------------------------
(****************** The beginning, and other quiet steps ******************)

\* no process has been spawned
Bare ==
    /\ start = [n \in Services |-> Idle] /\ handle = [n \in Services |-> NoHandle]
    /\ proc = [p \in Procs |-> Unborn] /\ rec = [p \in Procs |-> NoRec] /\ req = NoReq
    /\ file \in Files /\ phase \in {"load", "up", "failed"} /\ mixed \in BOOLEAN
    /\ plan \in Seq(PlanSteps) /\ PhaseInv

LEMMA BareFacts ==
    ASSUME Bare
    PROVE  /\ \A n \in Services : start[n].pc = "idle" /\ start[n] = Idle
           /\ \A n \in Services : handle[n] = NoHandle /\ handle[n].state = "absent" /\ handle[n].pid = NoProc
           /\ \A p \in Procs : proc[p].st = "none" /\ rec[p] = NoRec /\ rec[p].pc = "none"
           /\ req.pid = NoProc
<1>1. \A n \in Services : start[n].pc = "idle" /\ start[n] = Idle
  BY IdleFacts DEF Bare
<1>2. \A n \in Services : handle[n] = NoHandle /\ handle[n].state = "absent" /\ handle[n].pid = NoProc
  BY DEF Bare, NoHandle
<1>3. \A p \in Procs : proc[p].st = "none" /\ rec[p] = NoRec /\ rec[p].pc = "none"
  BY NoRecFacts DEF Bare, Unborn
<1>4. req.pid = NoProc
  BY DEF Bare, NoReq
<1> QED BY <1>1, <1>2, <1>3, <1>4

LEMMA BareState == Bare => StateInv
<1> SUFFICES ASSUME Bare PROVE StateInv
  OBVIOUS
<1>1. /\ \A n \in Services : start[n].pc = "idle" /\ start[n] = Idle
      /\ \A n \in Services : handle[n] = NoHandle /\ handle[n].state = "absent" /\ handle[n].pid = NoProc
      /\ \A p \in Procs : proc[p].st = "none" /\ rec[p] = NoRec /\ rec[p].pc = "none"
      /\ req.pid = NoProc
  BY BareFacts
<1>2. StartsOK(start)
  BY <1>1, IdleFacts DEF Bare, StartsOK
<1>3. handle \in [Services -> Handles]
  <2>1. NoHandle \in Handles
    BY DEF NoHandle, Handles, Pids
  <2> QED BY <2>1 DEF Bare
<1>4. ProcsOK(proc)
  <2>1. PICK U : U = Unborn
    OBVIOUS
  <2>2. IsProc(U) /\ U.st = "none" /\ U.bound = FALSE
    BY <2>1 DEF Unborn, IsProc
  <2>3. proc = [p \in Procs |-> U]
    BY <2>1 DEF Bare
  <2>4. \A p \in Procs : proc[p] = U
    BY <2>3
  <2> QED BY <2>2, <2>3, <2>4 DEF ProcsOK
<1>5. rec \in [Procs -> Recs]
  BY NoRecFacts DEF Bare
<1>6. req = [svc |-> req.svc, pid |-> req.pid, port |-> req.port]
  BY DEF Bare, NoReq
<1>7. RoutingTypeOK
  BY <1>1, <1>2, <1>3, <1>4, <1>5, <1>6 DEF RoutingTypeOK, Bare, Pids
<1>8. ProcInv /\ HoldInv
  BY <1>1 DEF ProcInv, Alive, HoldInv, Holds
<1>9. HandleInv
  BY <1>1 DEF HandleInv, HandleOK
<1>10. StartInv
  BY <1>1 DEF StartInv, StartOK
<1>11. RecInv
  BY <1>1 DEF RecInv, RecOK
<1>12. LooseInv
  BY <1>1 DEF LooseInv
<1>13. ReqInv
  BY <1>1 DEF ReqInv
<1> QED BY <1>7, <1>8, <1>9, <1>10, <1>11, <1>12, <1>13 DEF StateInv, Bare

LEMMA BareStateNext == Bare' => StateInv'
  BY BareState, PTL

LEMMA LoadFacts ==
    ASSUME StateInv, Load
    PROVE  /\ Bare'
           /\ \/ phase' = "up" /\ Loaded' /\ plan' \in StartAll(config')
              \/ phase' = "failed" /\ plan' = <<>> /\ config' = config /\ Fresh
<1>1. Fresh
  BY DEF Load, StateInv, PhaseInv
<1>2. UNCHANGED <<file, start, handle, proc, rec, routes, req, issued, mixed>>
  BY DEF Load
<1>3. \/ phase' = "up" /\ Loaded' /\ plan' \in StartAll(config')
      \/ phase' = "failed" /\ plan' = plan /\ config' = config
  BY DEF Load, Loaded
<1>4. plan = <<>> /\ \A n \in Services : start[n] = Idle
  BY <1>1 DEF Fresh
<1>5. PhaseInv'
  <2>1. \A n \in Services : start'[n] = Idle
    BY <1>2, <1>4
  <2>2. CASE phase' = "up" /\ Loaded'
    BY <2>1, <2>2 DEF PhaseInv
  <2>3. CASE phase' = "failed" /\ plan' = plan /\ config' = config
    <3>1. Fresh'
      BY <1>1, <1>2, <2>3 DEF Fresh
    <3> QED BY <2>1, <2>3, <3>1 DEF PhaseInv
  <2> QED BY <1>3, <2>2, <2>3
<1>6. plan' \in Seq(PlanSteps)
  <2>1. CASE plan' \in StartAll(config') /\ Loaded'
    <3>1. file \in Files /\ file' = file
      BY <1>2 DEF StateInv, RoutingTypeOK
    <3>2. Valid(config') /\ config' = from_file_with_env(file) /\ Readable(file)
      BY <1>2, <2>1 DEF Loaded, validate
    <3>3. IsConfig(config')
      BY <3>1, <3>2, Precedence DEF IsConfig
    <3>4. IsFiniteSet(Services)
      BY RoutingAssumption
    <3> QED BY <2>1, <3>2, <3>3, <3>4, StartAllPlan
  <2>2. CASE plan' = plan
    BY <2>2 DEF StateInv, RoutingTypeOK
  <2> QED BY <1>3, <2>1, <2>2
<1>7. /\ start = [n \in Services |-> Idle] /\ handle = [n \in Services |-> NoHandle]
      /\ proc = [p \in Procs |-> Unborn] /\ rec = [p \in Procs |-> NoRec] /\ req = NoReq
  <2>1. StartsOK(start) /\ handle \in [Services -> Handles] /\ ProcsOK(proc) /\ rec \in [Procs -> Recs]
    BY DEF StateInv, RoutingTypeOK
  <2>2. start = [n \in Services |-> Idle]
    BY <1>4, <2>1 DEF StartsOK
  <2>3. handle = [n \in Services |-> NoHandle]
    BY <1>1, <2>1 DEF Fresh
  <2>4. proc = [p \in Procs |-> Unborn]
    BY <1>1, <2>1 DEF Fresh, ProcsOK
  <2>5. rec = [p \in Procs |-> NoRec]
    BY <1>1, <2>1 DEF Fresh
  <2> QED BY <1>1, <2>2, <2>3, <2>4, <2>5 DEF Fresh
<1>8. Bare'
  <2>1. file' \in Files /\ phase' \in {"load", "up", "failed"} /\ mixed' \in BOOLEAN
    BY <1>2, <1>3 DEF StateInv, RoutingTypeOK
  <2> QED BY <1>2, <1>5, <1>6, <1>7, <2>1 DEF Bare
<1> QED BY <1>1, <1>3, <1>4, <1>8

LEMMA InitBare == Init => Bare /\ Fresh
<1> SUFFICES ASSUME Init PROVE Bare /\ Fresh
  OBVIOUS
<1>1. Fresh
  BY DEF Init, Fresh
<1>2. \A n \in Services : start[n] = Idle
  BY DEF Init
<1>3. PhaseInv
  BY <1>1, <1>2 DEF Init, PhaseInv
<1>4. plan \in Seq(PlanSteps) /\ file \in Files /\ phase \in {"load", "up", "failed"}
  BY DEF Init
<1>5. mixed = FALSE
  BY DEF Init
<1>6. /\ start = [n \in Services |-> Idle] /\ handle = [n \in Services |-> NoHandle]
      /\ proc = [p \in Procs |-> Unborn] /\ rec = [p \in Procs |-> NoRec] /\ req = NoReq
  BY Zenon DEF Init
<1> QED BY <1>1, <1>3, <1>4, <1>5, <1>6, Zenon DEF Bare

------------------------------------------------------------------------------
(************ What a step leaves alone while nothing is mixed *************)

LEMMA NeedsStays ==
    ASSUME config' = config
    PROVE  /\ Enabled(config') = Enabled(config)
           /\ \A n, d : Needs(n, d)' <=> Needs(n, d)
           /\ \A n : Unshared(n)' <=> Unshared(n)
<1>1. \A n : Below(n)' = Below(n)
  BY Zenon DEF Below
<1>2. Enabled(config') = Enabled(config)
  BY DEF Enabled
<1> QED BY <1>1, <1>2 DEF Needs, Unshared

LEMMA PlanStays ==
    ASSUME PlanInv, plan' = plan, phase' = phase, config' = config,
           \A n \in Services : Up(n)' => Up(n),
           \A d \in Services : handle[d].state # "absent" \/ start[d].pc # "idle" =>
                                   handle'[d].state # "absent" \/ start'[d].pc # "idle"
    PROVE  PlanInv'
<1>1. Enabled(config') = Enabled(config) /\ \A n, d : Needs(n, d)' <=> Needs(n, d)
  BY NeedsStays
<1>2. Enabled(config) \subseteq Services
  BY DEF Enabled
<1>3. PlanForm(plan')
  BY DEF PlanInv
<1>4. PlanOrder(plan)'
  BY <1>1 DEF PlanInv, PlanOrder
<1>5. \A j \in DOMAIN plan' : \A n, d \in Services : Needs(n, d)' /\ At(plan', j, "start", d) /\ Up(n)' =>
        \E i \in DOMAIN plan' : i < j /\ At(plan', i, "stop", n)
  BY <1>1 DEF PlanInv
<1>6. phase' = "up" => \A d \in Enabled(config') :
        \/ handle'[d].state # "absent" \/ start'[d].pc # "idle" \/ Todo(plan', "start", d) \/ Has(plan', "fail")
  BY <1>1, <1>2 DEF PlanInv
<1> QED BY <1>3, <1>4, <1>5, <1>6 DEF PlanInv

LEMMA UpStays ==
    ASSUME UpInv, config' = config,
           \A n \in Services : Up(n)' => Up(n),
           \A n \in Services : handle'[n].state = "absent" => handle[n].state = "absent",
           \A n \in Services : start'[n].pc # "idle" => start[n].pc # "idle" /\ handle'[n].pid = handle[n].pid
    PROVE  UpInv'
<1>1. \A n, d : Needs(n, d)' <=> Needs(n, d)
  BY NeedsStays
<1>2. \A n \in Services : start'[n].pc # "idle" => handle'[n].pid = NoProc
  BY DEF UpInv
<1>3. \A n, d \in Services : Up(n)' /\ Needs(n, d)' /\ d # n => handle'[d].state # "absent" /\ start'[d].pc = "idle"
  BY <1>1 DEF UpInv
<1> QED BY <1>2, <1>3 DEF UpInv

\* the route of n, if there is one
RouteKept(n) == config[n].subdomain \in DOMAIN routes =>
    config[n].subdomain \in DOMAIN routes' /\ routes'[config[n].subdomain] = routes[config[n].subdomain]

LEMMA RouteStays ==
    ASSUME NEW n \in Services, RouteOK(n), config' = config, Unshared(n) => RouteKept(n),
           start'[n].pc \in {"spawn", "insert"} =>
               start[n].pc \in {"spawn", "insert"} /\ start'[n].port = start[n].port,
           handle'[n].pid # NoProc => handle[n].pid # NoProc /\ handle'[n].port = handle[n].port
    PROVE  RouteOK(n)'
<1>1. Unshared(n)' <=> Unshared(n)
  BY NeedsStays
<1> QED BY <1>1 DEF RouteOK, RouteKept

\* ProxyRouter::update touches the route of one service
LEMMA UpdateFacts ==
    ASSUME NEW n \in Services, NEW port, Update(n, port)
    PROVE  /\ config[n].subdomain # "" =>
                config[n].subdomain \in DOMAIN routes' /\ routes'[config[n].subdomain] = port
           /\ \A m \in Services : m # n /\ Unshared(m) => RouteKept(m)
<1>1. PICK sub, e : sub = config[n].subdomain /\ e = Entry(sub, port)
  OBVIOUS
<1>2. CASE sub = ""
  BY <1>1, <1>2 DEF Update, RouteKept
<1>3. CASE sub # ""
  <2>1. routes' = Merged(e, routes)
    BY <1>1, <1>3 DEF Update
  <2>2. IsMerge(routes', e, routes)
    BY <2>1, MergedVars
  <2>3. DOMAIN e = {sub} /\ e[sub] = port
    BY <1>1, EntryFacts
  <2>4. sub \in DOMAIN routes' /\ routes'[sub] = port
    BY <2>2, <2>3 DEF IsMerge
  <2>5. ASSUME NEW m \in Services, m # n, Unshared(m) PROVE RouteKept(m)
    <3>1. config[m].subdomain # sub
      BY <1>1, <2>5 DEF Unshared
    <3> QED BY <2>2, <2>3, <3>1 DEF IsMerge, RouteKept
  <2> QED BY <1>1, <2>4, <2>5
<1> QED BY <1>2, <1>3

LEMMA CurrentStays ==
    ASSUME NEW n \in Services, NEW port, NEW M, Current(n, port, M), config' = config,
           \A d \in Services : Needs(n, d) /\ d # n => handle'[d].port = handle[d].port
    PROVE  Current(n, port, M)'
<1>1. \A d : Needs(n, d)' <=> Needs(n, d)
  BY NeedsStays
<1> QED BY <1>1 DEF Current

\* the ports of what n needs
PortsKept(n) == \A d \in Services : Needs(n, d) /\ d # n => handle'[d].port = handle[d].port

LEMMA StartCurrentStays ==
    ASSUME NEW n \in Services, StartCurrent(n), config' = config,
           start'[n].pc \in {"spawn", "insert"} =>
               /\ start[n].pc \in {"spawn", "insert"} /\ PortsKept(n)
               /\ start'[n].port = start[n].port /\ start'[n].svc = start[n].svc
    PROVE  StartCurrent(n)'
<1> SUFFICES ASSUME start'[n].pc \in {"spawn", "insert"}
             PROVE  \E M \in PortMaps : /\ start'[n].svc = resolve_service_ports(config'[n], M)
                                        /\ Current(n, start[n].port, M)'
  BY DEF StartCurrent
<1>1. PICK port : port = start[n].port
  OBVIOUS
<1>2. PICK M \in PortMaps : start[n].svc = resolve_service_ports(config[n], M) /\ Current(n, port, M)
  BY <1>1 DEF StartCurrent
<1>3. Current(n, port, M)'
  BY <1>2, CurrentStays DEF PortsKept
<1> QED BY <1>1, <1>2, <1>3 DEF Current

LEMMA HandleCurrentStays ==
    ASSUME NEW n \in Services, HandleCurrent(n), UNCHANGED <<file, config>>,
           handle'[n].pid # NoProc =>
               /\ handle'[n].pid = handle[n].pid /\ handle'[n].port = handle[n].port
               /\ Kept(handle[n].pid) /\ PortsKept(n)
    PROVE  HandleCurrent(n)'
<1> SUFFICES ASSUME handle'[n].pid # NoProc
             PROVE  \E M \in PortMaps : Resolved(proc[handle[n].pid], M)' /\ Current(n, handle[n].port, M)'
  BY DEF HandleCurrent
<1>1. PICK p, port : p = handle[n].pid /\ port = handle[n].port
  OBVIOUS
<1>2. PICK M \in PortMaps : Resolved(proc[p], M) /\ Current(n, port, M)
  BY <1>1 DEF HandleCurrent
<1>3. Current(n, port, M)'
  BY <1>2, CurrentStays DEF PortsKept
<1>4. Resolved(proc[p], M)'
  BY <1>1, <1>2 DEF Resolved, Kept
<1> QED BY <1>1, <1>2, <1>3, <1>4 DEF Current, Resolved

LEMMA RecCurrentStays ==
    ASSUME NEW p \in Procs, RecCurrent(p), UNCHANGED <<file, config>>,
           rec'[p].pc = "insert" /\ handle'[proc'[p].svc].pid = p =>
               /\ rec'[p] = rec[p] /\ handle[proc[p].svc].pid = p
               /\ Kept(p) /\ Kept(rec[p].pid) /\ proc[p].svc \in Services /\ PortsKept(proc[p].svc)
    PROVE  RecCurrent(p)'
<1> SUFFICES ASSUME rec'[p].pc = "insert", handle'[proc'[p].svc].pid = p
             PROVE  \E M \in PortMaps : Resolved(proc[rec[p].pid], M)' /\ Current(proc[p].svc, proc[p].port, M)'
  BY DEF RecCurrent
<1>1. PICK q, n, port : q = rec[p].pid /\ n = proc[p].svc /\ port = proc[p].port
  OBVIOUS
<1>2. PICK M \in PortMaps : Resolved(proc[q], M) /\ Current(n, port, M)
  BY <1>1 DEF RecCurrent
<1>3. Current(n, port, M)'
  BY <1>1, <1>2, CurrentStays DEF PortsKept
<1>4. Resolved(proc[q], M)'
  BY <1>1, <1>2 DEF Resolved, Kept
<1>5. rec'[p].pid = q /\ proc'[p].svc = n /\ proc'[p].port = port
  BY <1>1 DEF Kept
<1> QED BY <1>2, <1>3, <1>4, <1>5 DEF Current, Resolved

\* processes come and go and services are stopped
LEMMA SteadyUnmixed ==
    ASSUME StateInv, UnmixedInv, UNCHANGED <<file, config, start, routes>>,
           \A n \in Services : /\ handle'[n].port = handle[n].port
                               /\ handle'[n].pid = handle[n].pid \/ handle'[n].pid = NoProc
                               /\ handle'[n].state = "absent" => handle[n].state = "absent"
                               /\ handle'[n].pid # NoProc => Kept(handle[n].pid),
           \A p \in Procs : rec'[p].pc = "insert" => rec'[p] = rec[p] /\ Kept(p) /\ Kept(rec[p].pid)
    PROVE  /\ UpInv' /\ RouteInv' /\ RefsInv'
           /\ plan' = plan /\ phase' = phase => PlanInv'
<1>1. \A n \in Services : Up(n)' => Up(n)
  BY DEF Up
<1>2. UpInv'
  <2>1. \A n \in Services : start'[n].pc # "idle" => start[n].pc # "idle" /\ handle'[n].pid = handle[n].pid
    BY DEF UnmixedInv, UpInv
  <2> QED BY <1>1, <2>1, UpStays DEF UnmixedInv
<1>3. plan' = plan /\ phase' = phase => PlanInv'
  BY <1>1, PlanStays DEF UnmixedInv
<1>4. RouteInv'
  <2> SUFFICES ASSUME NEW n \in Services PROVE RouteOK(n)'
    BY DEF RouteInv
  <2>1. RouteOK(n) /\ RouteKept(n)
    BY DEF UnmixedInv, RouteInv, RouteKept
  <2> QED BY <2>1, RouteStays
<1>5. \A n \in Services : PortsKept(n)
  BY DEF PortsKept
<1>6. ASSUME NEW n \in Services PROVE StartCurrent(n)' /\ HandleCurrent(n)'
  <2>1. StartCurrent(n) /\ HandleCurrent(n)
    BY DEF UnmixedInv, RefsInv
  <2>2. StartCurrent(n)'
    BY <1>5, <2>1, StartCurrentStays
  <2>3. HandleCurrent(n)'
    BY <1>5, <2>1, HandleCurrentStays
  <2> QED BY <2>2, <2>3
<1>7. ASSUME NEW p \in Procs PROVE RecCurrent(p)'
  <2>1. RecCurrent(p)
    BY DEF UnmixedInv, RefsInv
  <2>2. ASSUME rec'[p].pc = "insert", handle'[proc'[p].svc].pid = p
        PROVE  /\ rec'[p] = rec[p] /\ handle[proc[p].svc].pid = p
               /\ Kept(p) /\ Kept(rec[p].pid) /\ proc[p].svc \in Services /\ PortsKept(proc[p].svc)
    <3>1. rec'[p] = rec[p] /\ Kept(p) /\ Kept(rec[p].pid) /\ rec[p].pc # "none"
      BY <2>2
    <3>2. proc[p].svc \in Services
      BY <3>1, LooseFacts
    <3>3. p # NoProc
      BY DEF Procs, NoProc
    <3>4. handle[proc[p].svc].pid = p
      BY <2>2, <3>1, <3>2, <3>3 DEF Kept
    <3> QED BY <1>5, <3>1, <3>2, <3>4
  <2> QED BY <2>1, <2>2, RecCurrentStays
<1> QED BY <1>2, <1>3, <1>4, <1>6, <1>7 DEF RefsInv

LEMMA QuietUnmixed ==
    ASSUME StateInv, UnmixedInv, UNCHANGED <<file, config, phase, plan, start, handle, rec, routes>>,
           \A q \in Procs : Kept(q)
    PROVE  UnmixedInv'
<1>1. \A n \in Services : handle[n].pid # NoProc => Kept(handle[n].pid)
  BY DEF StateInv, HandleInv, HandleOK, Alive
<1>2. \A p \in Procs : rec[p].pc = "insert" => Kept(rec[p].pid)
  BY DEF StateInv, RecInv, RecOK, Alive
<1> QED BY <1>1, <1>2, SteadyUnmixed DEF UnmixedInv

LEMMA StopUnmixed ==
    ASSUME StateInv, UnmixedInv, NEW n \in Services, Stop(n)
    PROVE  /\ UpInv' /\ RouteInv' /\ RefsInv'
           /\ plan' = plan => PlanInv'
           /\ \A m \in Services : Up(m)' => Up(m)
           /\ start[n].pc = "idle" => ~Up(n)'
           /\ \A m \in Services : handle[m].state # "absent" => handle'[m].state # "absent"
<1>1. ProcsOK(proc) /\ handle \in [Services -> Handles]
  BY DEF StateInv, RoutingTypeOK
<1>2. /\ \A q \in Procs : Kept(q)
      /\ \A m \in Services : m # n => handle'[m] = handle[m]
      /\ handle'[n].port = handle[n].port
      /\ handle[n].state = "absent" => handle'[n] = handle[n]
      /\ handle[n].state # "absent" => handle'[n].state = "stopped" /\ handle'[n].pid = NoProc
  BY <1>1, StopFacts
<1>3. \A m \in Services : handle[m].pid # NoProc => Kept(handle[m].pid)
  BY <1>2 DEF StateInv, HandleInv, HandleOK, Alive
<1>4. \A p \in Procs : rec[p].pc = "insert" => Kept(rec[p].pid)
  BY <1>2 DEF StateInv, RecInv, RecOK, Alive
<1>5. handle[n].state = "absent" => handle[n].pid = NoProc
  BY DEF StateInv, HandleInv, HandleOK
<1>6. UNCHANGED <<file, config, phase, start, rec, routes>>
  BY DEF Stop
<1>7. UpInv' /\ RouteInv' /\ RefsInv' /\ (plan' = plan => PlanInv')
  BY <1>2, <1>3, <1>4, <1>5, <1>6, SteadyUnmixed
<1>8. \A m \in Services : Up(m)' => Up(m)
  BY <1>2, <1>6 DEF Up
<1>9. start[n].pc = "idle" => ~Up(n)'
  BY <1>2, <1>5, <1>6 DEF Up
<1> QED BY <1>2, <1>7, <1>8, <1>9

LEMMA RecCheckUnmixed ==
    ASSUME StateInv, UnmixedInv, NEW p \in Procs, RecCheck(p)
    PROVE  UnmixedInv'
<1>1. /\ rec[p].pc = "wait" /\ rec \in [Procs -> Recs] /\ ProcsOK(proc)
      /\ UNCHANGED <<file, config, phase, plan, start, handle, routes, req, issued>>
  BY DEF RecCheck, StateInv, RoutingTypeOK
<1>2. /\ \A m \in Services : handle[m].pid = p => m = proc[p].svc /\ handle[m].state = "running"
      /\ \A q \in Procs : rec[q].pc = "insert" => rec[q].pid # p /\ rec[q].pid \in Procs /\ Alive(rec[q].pid)
  BY <1>1, LooseFacts
<1>3. /\ \A q \in Procs : q # p => Kept(q) /\ rec'[q] = rec[q]
      /\ \A m \in Services : handle[m].pid = p => Kept(p)
      /\ rec'[p].pc # "insert"
  <2>1. CASE handle[proc[p].svc].state = "stopped"
    <3>1. rec' = [rec EXCEPT ![p] = NoRec] /\ proc' = [proc EXCEPT ![p] = Reaped]
      BY <2>1 DEF RecCheck
    <3>2. \A q \in Procs : q # p => proc'[q] = proc[q]
      BY <1>1, <3>1, ReapFacts
    <3>3. rec'[p].pc # "insert" /\ \A q \in Procs : q # p => rec'[q] = rec[q]
      BY <1>1, <3>1, NoRecFacts
    <3> QED BY <1>2, <2>1, <3>2, <3>3 DEF Kept
  <2>2. CASE handle[proc[p].svc].state # "stopped"
    <3>1. rec' = [rec EXCEPT ![p].pc = "backoff"] /\ proc' = proc
      BY <2>2 DEF RecCheck
    <3>2. rec'[p].pc = "backoff" /\ \A q \in Procs : q # p => rec'[q] = rec[q]
      BY <1>1, <3>1, RecMove
    <3> QED BY <3>1, <3>2 DEF Kept
  <2> QED BY <2>1, <2>2
<1>4. \A m \in Services : handle[m].pid # NoProc => Kept(handle[m].pid)
  BY <1>3 DEF StateInv, HandleInv, HandleOK, Alive
<1>5. \A q \in Procs : rec'[q].pc = "insert" => rec'[q] = rec[q] /\ Kept(q) /\ Kept(rec[q].pid)
  BY <1>2, <1>3
<1> QED BY <1>1, <1>4, <1>5, SteadyUnmixed DEF UnmixedInv

\* the first step of a plan is taken
LEMMA TailPlan ==
    ASSUME StateInv, PlanInv, plan # <<>>, plan[1].verb # "fail", plan' = Tail(plan), config' = config, phase' = phase
    PROVE  /\ PlanForm(plan') /\ PlanOrder(plan)'
           /\ plan \in Seq(PlanSteps) /\ 1 \in DOMAIN plan /\ ~Has(plan, "fail")
<1>1. plan \in Seq(PlanSteps) /\ PlanForm(plan) /\ PlanOrder(plan)
  BY DEF StateInv, RoutingTypeOK, PlanInv
<1>2. 1 \in DOMAIN plan /\ \A i \in DOMAIN plan' : i \in Nat /\ i + 1 \in DOMAIN plan /\ plan'[i] = plan[i + 1]
  BY <1>1, TailFacts
<1>3. ~Has(plan, "fail") /\ ~Has(plan', "fail")
  BY <1>1, HasTail DEF PlanForm
<1>4. Verbs(plan', {"start", "stop", "fail"})
  BY <1>1, VerbsTail DEF PlanForm
<1>5. \A i \in DOMAIN plan' : \A v, n : At(plan', i, v, n) => At(plan, i + 1, v, n)
  BY <1>2 DEF At
<1>6. StartsOnce(plan')
  <2> SUFFICES ASSUME NEW i \in DOMAIN plan', NEW j \in DOMAIN plan', NEW n \in Services,
                      At(plan', i, "start", n), At(plan', j, "start", n)
               PROVE  i = j
    BY DEF StartsOnce
  <2>1. i + 1 = j + 1
    BY <1>1, <1>2, <1>5 DEF PlanForm, StartsOnce
  <2> QED BY <1>2, <2>1
<1>7. StopsSingly(plan')
  BY <1>1, <1>2 DEF PlanForm, StopsSingly
<1>8. PlanOrder(plan)'
  <2> SUFFICES ASSUME NEW i \in DOMAIN plan', NEW j \in DOMAIN plan', NEW n \in Services, NEW d \in Services,
                      i <= j, At(plan', i, "start", n), At(plan', j, "start", d), Needs(n, d)'
               PROVE  n = d
    BY DEF PlanOrder
  <2>1. Needs(n, d)
    BY NeedsStays
  <2>2. At(plan, i + 1, "start", n) /\ At(plan, j + 1, "start", d)
    BY <1>5
  <2>3. i + 1 \in DOMAIN plan /\ j + 1 \in DOMAIN plan /\ i + 1 <= j + 1
    BY <1>2
  <2> QED BY <1>1, <2>1, <2>2, <2>3 DEF PlanOrder
<1> QED BY <1>1, <1>2, <1>3, <1>4, <1>6, <1>7, <1>8 DEF PlanForm

LEMMA StopStepUnmixed ==
    ASSUME StateInv, UnmixedInv, StopStep
    PROVE  UnmixedInv'
<1>1. plan # <<>> /\ Head(plan).verb = "stop" /\ plan' = Tail(plan) /\ Quiescent
  BY DEF StopStep
<1>2. PICK n \in Head(plan).names : Stop(n)
  BY DEF StopStep
<1>3. plan \in Seq(PlanSteps) /\ Head(plan) = plan[1] /\ 1 \in DOMAIN plan /\ plan[1].verb = "stop"
  BY <1>1, TailFacts DEF StateInv, RoutingTypeOK
<1>4. config' = config /\ phase' = phase /\ start' = start
  BY <1>2 DEF Stop
<1>5. n \in Services /\ plan[1].names = {n}
  BY <1>2, <1>3 DEF UnmixedInv, PlanInv, PlanForm, StopsSingly
<1>6. start[n].pc = "idle"
  BY <1>1, <1>5, IdleFacts DEF Quiescent
<1>7. /\ UpInv' /\ RouteInv' /\ RefsInv'
      /\ \A m \in Services : Up(m)' => Up(m)
      /\ ~Up(n)'
      /\ \A m \in Services : handle[m].state # "absent" => handle'[m].state # "absent"
  BY <1>2, <1>5, <1>6, StopUnmixed
<1>8. PlanForm(plan') /\ PlanOrder(plan)' /\ ~Has(plan, "fail")
  BY <1>1, <1>3, <1>4, TailPlan DEF UnmixedInv
<1>9. ASSUME NEW j \in DOMAIN plan', NEW m \in Services, NEW d \in Services,
             Needs(m, d)', At(plan', j, "start", d), Up(m)'
      PROVE  \E i \in DOMAIN plan' : i < j /\ At(plan', i, "stop", m)
  <2>1. j \in Nat /\ j + 1 \in DOMAIN plan /\ At(plan, j + 1, "start", d)
    BY <1>1, <1>3, <1>9, AtTail
  <2>2. Needs(m, d) /\ Up(m) /\ m # n
    BY <1>4, <1>7, <1>9, NeedsStays
  <2>3. PICK i \in DOMAIN plan : i < j + 1 /\ At(plan, i, "stop", m)
    BY <2>1, <2>2 DEF UnmixedInv, PlanInv
  <2>4. i # 1
    BY <1>5, <2>2, <2>3 DEF At
  <2>5. i \in Nat /\ i - 1 \in DOMAIN plan' /\ At(plan', i - 1, "stop", m)
    BY <1>1, <1>3, <2>3, <2>4, AtTail
  <2>6. i - 1 < j
    BY <2>1, <2>3, <2>5
  <2> QED BY <2>5, <2>6
<1>10. ASSUME phase' = "up", NEW d \in Enabled(config')
       PROVE  handle'[d].state # "absent" \/ start'[d].pc # "idle" \/ Todo(plan', "start", d)
  <2>1. d \in Enabled(config) /\ d \in Services /\ phase = "up"
    BY <1>4, <1>10 DEF Enabled
  <2>2. ~At(plan, 1, "start", d)
    BY <1>3 DEF At
  <2>3. Todo(plan, "start", d) => Todo(plan', "start", d)
    BY <1>1, <1>3, <2>2, AtTail
  <2> QED BY <1>4, <1>7, <1>8, <2>1, <2>3 DEF UnmixedInv, PlanInv
<1>11. PlanInv'
  BY <1>8, <1>9, <1>10 DEF PlanInv
<1> QED BY <1>7, <1>11 DEF UnmixedInv

LEMMA BeginUnmixed ==
    ASSUME StateInv, UnmixedInv, BeginStarts
    PROVE  UnmixedInv'
<1>1. plan # <<>> /\ Head(plan).verb = "start" /\ plan' = Tail(plan) /\ Quiescent
      /\ UNCHANGED <<file, config, phase, handle, proc, rec, routes>>
  BY DEF BeginStarts
<1>2. plan \in Seq(PlanSteps) /\ Head(plan) = plan[1] /\ 1 \in DOMAIN plan /\ plan[1].verb = "start"
  BY <1>1, TailFacts DEF StateInv, RoutingTypeOK
<1>3. /\ \A n \in Services : At(plan, 1, "start", n) => start'[n].pc = "claim"
      /\ \A n \in Services : ~At(plan, 1, "start", n) => start'[n] = start[n] /\ start'[n].pc = "idle"
  <2>1. StartsOK(start)
    BY DEF StateInv, RoutingTypeOK
  <2>2. /\ \A n \in Services : n \in Head(plan).names => start'[n].pc = "claim"
        /\ \A n \in Services : n \notin Head(plan).names => start'[n] = start[n]
    BY <2>1, BeginFacts
  <2> QED BY <1>1, <1>2, <2>2, IdleFacts DEF At, Quiescent
<1>4. \A n \in Services : start[n].pc = "idle"
  BY <1>1, IdleFacts DEF Quiescent
<1>5. /\ PlanForm(plan') /\ PlanOrder(plan)' /\ ~Has(plan, "fail")
  BY <1>1, <1>2, TailPlan DEF UnmixedInv
<1>6. \A i \in DOMAIN plan : i \in Nat /\ 1 <= i /\ ~(i < 1)
  BY <1>2, TailFacts
<1>7. \A n, d : Needs(n, d)' <=> Needs(n, d)
  BY <1>1, NeedsStays
\* what is started now is not up, and neither is what needs it
<1>8. ASSUME NEW n \in Services, NEW d \in Services, Needs(n, d), At(plan, 1, "start", d) PROVE ~Up(n)
  BY <1>2, <1>6, <1>8 DEF UnmixedInv, PlanInv
<1>9. \A n \in Services : At(plan, 1, "start", n) => ~Up(n) /\ handle[n].pid = NoProc
  BY <1>8 DEF Needs, Up
<1>10. ASSUME NEW n \in Services, NEW d \in Services, Needs(n, d), d # n, At(plan, 1, "start", n)
       PROVE  ~Todo(plan, "start", d)
  <2> SUFFICES ASSUME NEW j \in DOMAIN plan, At(plan, j, "start", d) PROVE FALSE
    BY DEF Todo
  <2> QED BY <1>2, <1>6, <1>10 DEF UnmixedInv, PlanInv, PlanOrder
<1>11. UpInv'
  <2>1. \A n \in Services : start'[n].pc # "idle" => handle'[n].pid = NoProc
    BY <1>1, <1>3, <1>9
  <2>2. ASSUME NEW n \in Services, NEW d \in Services, Up(n)', Needs(n, d)', d # n
        PROVE  handle'[d].state # "absent" /\ start'[d].pc = "idle"
    <3>1. Needs(n, d) /\ handle' = handle
      BY <1>1, <1>7, <2>2
    <3>2. CASE At(plan, 1, "start", n)
      <4>1. ~Todo(plan, "start", d) /\ ~At(plan, 1, "start", d)
        BY <1>2, <1>10, <2>2, <3>1, <3>2 DEF Todo
      <4>2. d \in Enabled(config)
        <5>1. n \in Enabled(config) /\ d \in Under(config, n)
          BY <2>2, <3>1 DEF Needs, Below, Under
        <5>2. phase = "up" /\ Loaded /\ file \in Files
          BY <1>1, Grounded DEF Quiescent
        <5>3. IsConfig(config) /\ Valid(config)
          BY <5>2, ConfigFacts DEF IsConfig, Loaded, validate
        <5>4. IsFiniteSet(Services)
          BY RoutingAssumption
        <5> QED BY <5>1, <5>3, <5>4, UnderEnabled
      <4>3. handle[d].state # "absent"
        BY <1>1, <1>4, <1>5, <4>1, <4>2 DEF UnmixedInv, PlanInv, Quiescent
      <4> QED BY <1>3, <3>1, <4>1, <4>3
    <3>3. CASE ~At(plan, 1, "start", n)
      <4>1. Up(n)
        BY <1>3, <2>2, <3>1, <3>3 DEF Up
      <4>2. ~At(plan, 1, "start", d)
        BY <1>8, <3>1, <4>1
      <4> QED BY <1>3, <2>2, <3>1, <4>1, <4>2 DEF UnmixedInv, UpInv
    <3> QED BY <3>2, <3>3
  <2> QED BY <2>1, <2>2 DEF UpInv
<1>12. ASSUME NEW j \in DOMAIN plan', NEW n \in Services, NEW d \in Services,
              Needs(n, d)', At(plan', j, "start", d), Up(n)'
       PROVE  \E i \in DOMAIN plan' : i < j /\ At(plan', i, "stop", n)
  <2>1. j \in Nat /\ j + 1 \in DOMAIN plan /\ At(plan, j + 1, "start", d)
    BY <1>1, <1>2, <1>12, AtTail
  <2>2. Needs(n, d)
    BY <1>7, <1>12
  <2>3. ~At(plan, 1, "start", n)
    <3> SUFFICES ASSUME At(plan, 1, "start", n) PROVE FALSE
      OBVIOUS
    <3>1. Todo(plan, "start", d)
      BY <2>1 DEF Todo
    <3>2. d = n
      BY <1>10, <2>2, <3>1
    <3>3. 1 = j + 1
      BY <1>2, <2>1, <3>2 DEF UnmixedInv, PlanInv, PlanForm, StartsOnce
    <3>4. 1 <= j
      <4>1. plan' \in Seq(PlanSteps)
        BY <1>1, <1>2, TailFacts
      <4> QED BY <4>1
    <3> QED BY <2>1, <3>3, <3>4
  <2>4. Up(n)
    BY <1>1, <1>3, <1>12, <2>3 DEF Up
  <2>5. PICK i \in DOMAIN plan : i < j + 1 /\ At(plan, i, "stop", n)
    BY <2>1, <2>2, <2>4 DEF UnmixedInv, PlanInv
  <2>6. i # 1
    BY <1>2, <2>5 DEF At
  <2>7. i \in Nat /\ i - 1 \in DOMAIN plan' /\ At(plan', i - 1, "stop", n)
    BY <1>1, <1>2, <2>5, <2>6, AtTail
  <2>8. i - 1 < j
    BY <2>1, <2>5, <2>7
  <2> QED BY <2>7, <2>8
<1>13. ASSUME phase' = "up", NEW d \in Enabled(config')
       PROVE  handle'[d].state # "absent" \/ start'[d].pc # "idle" \/ Todo(plan', "start", d)
  <2>1. d \in Enabled(config) /\ d \in Services /\ phase = "up"
    BY <1>1, <1>13 DEF Enabled
  <2>2. Todo(plan, "start", d) => At(plan, 1, "start", d) \/ Todo(plan', "start", d)
    BY <1>1, <1>2, AtTail
  <2> QED BY <1>1, <1>3, <1>4, <1>5, <2>1, <2>2 DEF UnmixedInv, PlanInv
<1>14. PlanInv'
  BY <1>5, <1>12, <1>13 DEF PlanInv
<1>15. \A n \in Services : start'[n].pc \notin {"spawn", "insert"}
  BY <1>3
<1>16. RouteInv'
  <2> SUFFICES ASSUME NEW n \in Services PROVE RouteOK(n)'
    BY DEF RouteInv
  <2>1. RouteOK(n) /\ RouteKept(n)
    BY <1>1 DEF UnmixedInv, RouteInv, RouteKept
  <2> QED BY <1>1, <1>15, <2>1, RouteStays
<1>17. RefsInv'
  <2>1. \A n \in Services : PortsKept(n)
    BY <1>1 DEF PortsKept
  <2>2. \A q : Kept(q)
    BY <1>1 DEF Kept
  <2>3. \A n \in Services : StartCurrent(n)'
    BY <1>15 DEF StartCurrent
  <2>4. \A n \in Services : HandleCurrent(n)'
    BY <1>1, <2>1, <2>2, HandleCurrentStays DEF UnmixedInv, RefsInv
  <2>5. \A p \in Procs : RecCurrent(p)'
    BY <1>1, <2>1, <2>2, RecCurrentStays, LooseFacts DEF UnmixedInv, RefsInv
  <2> QED BY <2>3, <2>4, <2>5 DEF RefsInv
<1> QED BY <1>11, <1>14, <1>16, <1>17 DEF UnmixedInv

LEMMA PanicUnmixed ==
    ASSUME StateInv, UnmixedInv, NEW n \in Services, SpawnPanics(n)
    PROVE  UnmixedInv'
<1>1. /\ start' = [m \in Services |-> Idle] /\ phase' = "failed" /\ plan' = <<>>
      /\ UNCHANGED <<file, config, handle, proc, rec, routes>>
  BY DEF SpawnPanics
<1>2. \A m \in Services : start'[m].pc = "idle"
  BY <1>1, IdleFacts
<1>3. PlanInv'
  BY <1>1 DEF PlanInv, PlanForm, PlanOrder, Verbs, StartsOnce, StopsSingly, Has
<1>4. UpInv'
  BY <1>1, <1>2, UpStays DEF UnmixedInv, Up
<1>5. RouteInv'
  <2> SUFFICES ASSUME NEW m \in Services PROVE RouteOK(m)'
    BY DEF RouteInv
  <2>1. RouteOK(m) /\ RouteKept(m)
    BY <1>1 DEF UnmixedInv, RouteInv, RouteKept
  <2> QED BY <1>1, <1>2, <2>1, RouteStays
<1>6. RefsInv'
  <2>1. \A m \in Services : PortsKept(m)
    BY <1>1 DEF PortsKept
  <2>2. \A q : Kept(q)
    BY <1>1 DEF Kept
  <2>3. \A m \in Services : StartCurrent(m)'
    BY <1>2 DEF StartCurrent
  <2>4. \A m \in Services : HandleCurrent(m)'
    BY <1>1, <2>1, <2>2, HandleCurrentStays DEF UnmixedInv, RefsInv
  <2>5. \A p \in Procs : RecCurrent(p)'
    BY <1>1, <2>1, <2>2, RecCurrentStays, LooseFacts DEF UnmixedInv, RefsInv
  <2> QED BY <2>3, <2>4, <2>5 DEF RefsInv
<1> QED BY <1>3, <1>4, <1>5, <1>6 DEF UnmixedInv

\* a plan is made
LEMMA OrderFromWaves ==
    ASSUME file \in Files, Loaded, NEW p, Acyclic(config), WaveByWave(config, p)
    PROVE  PlanOrder(p)
<1>1. IsFiniteSet(Services) /\ IsConfig(config)
  BY RoutingAssumption, ConfigFacts DEF IsConfig
<1> SUFFICES ASSUME NEW i \in DOMAIN p, NEW j \in DOMAIN p, NEW n \in Services, NEW d \in Services,
                    i <= j, At(p, i, "start", n), At(p, j, "start", d), Needs(n, d), n # d
             PROVE  FALSE
  BY DEF PlanOrder
<1>2. n \in Declared(config) /\ d \in Declared(config) /\ Wave(config, n) <= Wave(config, d)
  BY DEF WaveByWave
<1>3. d \in Under(config, n)
  BY DEF Needs, Below, Under
<1>4. Wave(config, d) < Wave(config, n)
  BY <1>1, <1>2, <1>3, UnderWaves
<1>5. PICK a, b \in Nat : a = Wave(config, n) /\ b = Wave(config, d)
  BY <1>1, <1>2, WaveFacts, NIsNat
<1> QED BY <1>2, <1>4, <1>5

LEMMA FailsUnmixed ==
    /\ PlanForm(Fails) /\ Has(Fails, "fail") /\ PlanOrder(Fails)
    /\ \A j \in DOMAIN Fails : \A d : ~At(Fails, j, "start", d)
<1>1. DOMAIN Fails = {1} /\ Fails[1].verb = "fail"
  BY FailsPlan
<1> QED BY <1>1 DEF PlanForm, PlanOrder, Has, At, Verbs, StartsOnce, StopsSingly

LEMMA RestartUnmixed ==
    ASSUME StateInv, UnmixedInv, NEW n0 \in Services, RestartRequest(n0)
    PROVE  UnmixedInv' /\ plan' \in Seq(PlanSteps)
<1>1. /\ Quiescent /\ plan = <<>> /\ plan' \in Restart(config, n0)
      /\ UNCHANGED <<file, config, phase, start, handle, proc, rec, routes, req, mixed>>
  BY DEF RestartRequest
<1>2. phase = "up" /\ Loaded /\ file \in Files
  BY <1>1, Grounded DEF Quiescent
<1>3. IsFiniteSet(Services) /\ IsConfig(config) /\ Valid(config)
  BY <1>2, RoutingAssumption, ConfigFacts DEF IsConfig, Loaded, validate
<1>4. \A q : Kept(q)
  BY <1>1 DEF Kept
<1>5. UpInv' /\ RouteInv' /\ RefsInv'
  BY <1>1, <1>4, SteadyUnmixed
<1>6. plan' \in Seq(PlanSteps) /\ Sound(config, plan')
  BY <1>1, <1>3, RestartPlan
<1>7. \A n, d : Needs(n, d)' <=> Needs(n, d)
  BY <1>1, NeedsStays
<1>8. \A d \in Enabled(config) : handle'[d].state # "absent" \/ start'[d].pc # "idle"
  <2>1. \A d : ~Todo(plan, "start", d) /\ ~Has(plan, "fail")
    BY <1>1 DEF Todo, Has
  <2> QED BY <1>1, <1>2, <2>1 DEF UnmixedInv, PlanInv
<1>9. PlanForm(plan') /\ PlanOrder(plan)'
  <2>1. CASE ~Acyclic(config)
    <3>1. plan' = Fails
      BY <1>1, <2>1 DEF Restart
    <3> QED BY <1>7, <3>1, FailsUnmixed DEF PlanOrder
  <2>2. CASE Acyclic(config)
    <3>1. Verbs(plan', {"stop", "start"}) /\ WaveByWave(config, plan') /\ StopsSingly(plan')
      BY <1>1, <1>3, <2>2, RestartShape
    <3>2. PlanOrder(plan')
      BY <1>2, <2>2, <3>1, OrderFromWaves
    <3>3. PlanOrder(plan)'
      BY <1>7, <3>2 DEF PlanOrder
    <3>4. PlanForm(plan')
      BY <1>6, <3>1 DEF PlanForm, Verbs, Has, Sound
    <3> QED BY <3>3, <3>4
  <2> QED BY <2>1, <2>2
<1>10. ASSUME NEW j \in DOMAIN plan', NEW n \in Services, NEW d \in Services,
              Needs(n, d)', At(plan', j, "start", d), Up(n)'
       PROVE  \E i \in DOMAIN plan' : i < j /\ At(plan', i, "stop", n)
  <2>1. CASE ~Acyclic(config)
    <3>1. plan' = Fails
      BY <1>1, <2>1 DEF Restart
    <3> QED BY <1>10, <3>1, FailsUnmixed
  <2>2. CASE Acyclic(config)
    <3>1. /\ StopsFirst(plan')
          /\ \A m : Todo(plan', "start", m) => m \in WithDependents(config, {n0})
          /\ \A m : m \in WithDependents(config, {n0}) => Todo(plan', "stop", m)
      BY <1>1, <1>3, <2>2, RestartShape
    <3>2. d \in WithDependents(config, {n0})
      BY <1>10, <3>1 DEF Todo
    <3>3. n \in WithDependents(config, {n0})
      <4>1. CASE n = d
        BY <3>2, <4>1
      <4>2. CASE n # d
        <5>1. n \in Enabled(config) /\ d \in Under(config, n)
          BY <1>7, <1>10, <4>2 DEF Needs, Below, Under
        <5>2. {n0} \in SUBSET Services
          OBVIOUS
        <5> QED BY <1>3, <3>2, <5>1, <5>2, UnderDependents
      <4> QED BY <4>1, <4>2
    <3>4. PICK i \in DOMAIN plan' : At(plan', i, "stop", n)
      BY <3>1, <3>3 DEF Todo
    <3>5. i < j
      BY <1>10, <3>1, <3>4 DEF StopsFirst, At
    <3> QED BY <3>4, <3>5
  <2> QED BY <2>1, <2>2
<1>11. PlanInv'
  BY <1>1, <1>8, <1>9, <1>10 DEF PlanInv
<1> QED BY <1>5, <1>6, <1>11 DEF UnmixedInv

\* nothing is up
LEMMA BareUnmixed ==
    ASSUME Bare, PlanForm(plan), PlanOrder(plan),
           phase = "up" => \A d \in Enabled(config) : Todo(plan, "start", d) \/ Has(plan, "fail")
    PROVE  UnmixedInv
<1>1. /\ \A n \in Services : start[n].pc = "idle" /\ start[n] = Idle
      /\ \A n \in Services : handle[n] = NoHandle /\ handle[n].state = "absent" /\ handle[n].pid = NoProc
      /\ \A p \in Procs : proc[p].st = "none" /\ rec[p] = NoRec /\ rec[p].pc = "none"
      /\ req.pid = NoProc
  BY BareFacts
<1>2. \A n \in Services : ~Up(n)
  BY <1>1 DEF Up
<1>3. PlanInv
  BY <1>2 DEF PlanInv
<1>4. UpInv
  BY <1>1, <1>2 DEF UpInv
<1>5. RouteInv
  BY <1>1 DEF RouteInv, RouteOK
<1>6. RefsInv
  BY <1>1 DEF RefsInv, StartCurrent, HandleCurrent, RecCurrent
<1> QED BY <1>3, <1>4, <1>5, <1>6 DEF UnmixedInv

Planned == phase = "up" => \A d \in Enabled(config) : Todo(plan, "start", d) \/ Has(plan, "fail")

LEMMA BarePlanned == Bare /\ PlanForm(plan) /\ PlanOrder(plan) /\ Planned => UnmixedInv
  BY BareUnmixed DEF Planned

LEMMA BarePlannedNext == Bare' /\ PlanForm(plan)' /\ PlanOrder(plan)' /\ Planned' => UnmixedInv'
  BY BarePlanned, PTL

LEMMA OrderLoaded == file \in Files /\ Loaded /\ Acyclic(config) /\ WaveByWave(config, plan) => PlanOrder(plan)
  BY OrderFromWaves

LEMMA OrderLoadedNext == (file \in Files)' /\ Loaded' /\ Acyclic(config)' /\ WaveByWave(config, plan)' => PlanOrder(plan)'
  BY OrderLoaded, PTL

LEMMA LoadUnmixed ==
    ASSUME StateInv, Load
    PROVE  UnmixedInv'
<1>1. /\ Bare'
      /\ \/ phase' = "up" /\ Loaded' /\ plan' \in StartAll(config')
         \/ phase' = "failed" /\ plan' = <<>> /\ config' = config /\ Fresh
  BY LoadFacts
<1>2. IsFiniteSet(Services)
  BY RoutingAssumption
<1>3. PlanForm(plan)' /\ PlanOrder(plan)' /\ Planned'
  <2>1. CASE plan' = <<>> /\ phase' = "failed"
    BY <2>1 DEF PlanForm, PlanOrder, Planned, Verbs, StartsOnce, StopsSingly, Has
  <2>2. CASE phase' = "up" /\ Loaded' /\ plan' \in StartAll(config') /\ ~Acyclic(config')
    <3>1. plan' = Fails
      BY <2>2 DEF StartAll
    <3>2. PlanForm(plan') /\ Has(plan', "fail")
      BY <3>1, FailsUnmixed
    <3>3. \A j \in DOMAIN plan' : \A d : ~At(plan', j, "start", d)
      BY <3>1, FailsUnmixed
    <3> QED BY <3>2, <3>3 DEF PlanOrder, Planned
  <2>3. CASE phase' = "up" /\ Loaded' /\ plan' \in StartAll(config') /\ Acyclic(config')
    <3>1. PICK c, p : c = config' /\ p = plan'
      OBVIOUS
    <3>2. p \in StartAll(c) /\ Acyclic(c)
      BY <2>3, <3>1
    <3>3. /\ Verbs(p, {"start"}) /\ StartsOnce(p) /\ WaveByWave(c, p)
          /\ \A n \in Enabled(c) : Todo(p, "start", n)
      BY <1>2, <3>2, StartAllShape
    <3>4. PlanForm(p)
      BY <3>3 DEF PlanForm, Verbs, StopsSingly, Has
    <3>5. Planned' /\ PlanForm(plan)'
      BY <3>1, <3>3, <3>4 DEF Planned
    <3>6. file' \in Files
      BY <1>1 DEF Bare
    <3>7. PlanOrder(plan)'
      BY <2>3, <3>1, <3>3, <3>6, OrderLoadedNext
    <3> QED BY <3>5, <3>7
  <2> QED BY <1>1, <2>1, <2>2, <2>3
<1> QED BY <1>1, <1>3, BarePlannedNext

LEMMA ClaimUnmixed ==
    ASSUME StateInv, UnmixedInv, NEW n \in Services, Claim(n)
    PROVE  UnmixedInv'
<1>1. /\ start[n].pc = "claim" /\ StartsOK(start)
      /\ UNCHANGED <<file, config, phase, plan, handle, proc, rec, req, issued, mixed>>
  BY DEF Claim, StateInv, RoutingTypeOK
<1>2. PICK port \in Ports : Claims(n, port)
  BY <1>1, ClaimFacts
<1>3. PICK M : M = Merged(Entry(n, port), RuntimePorts)
  OBVIOUS
<1>4. /\ M \in PortMaps
      /\ n \in DOMAIN M /\ M[n] = port
      /\ \A d \in Services : handle[d].state # "absent" /\ d # n => d \in DOMAIN M /\ M[d] = handle[d].port
  BY <1>3, ClaimedPorts
<1>5. PICK s : s = [pc |-> "spawn", port |-> port, pid |-> start[n].pid, svc |-> resolve_service_ports(config[n], M)]
  OBVIOUS
<1>6. start'[n] = s /\ \A m \in Services : m # n => start'[m] = start[m]
  BY <1>2, <1>3, <1>5 DEF Claims, StartMoves
<1>7. s.pc = "spawn" /\ s.port = port /\ s.svc = resolve_service_ports(config[n], M)
  BY <1>5
<1>8. /\ config[n].subdomain # "" =>
           config[n].subdomain \in DOMAIN routes' /\ routes'[config[n].subdomain] = port
      /\ \A m \in Services : m # n /\ Unshared(m) => RouteKept(m)
  BY <1>2, UpdateFacts DEF Claims
<1>9. \A m \in Services : start'[m].pc # "idle" <=> start[m].pc # "idle"
  BY <1>1, <1>6, <1>7
<1>10. Up(n) /\ handle[n].pid = NoProc /\ \A m \in Services : Up(m)' => Up(m)
  BY <1>1, <1>9 DEF Up, UnmixedInv, UpInv
<1>11. PlanInv'
  BY <1>1, <1>9, <1>10, PlanStays DEF UnmixedInv
<1>12. UpInv'
  BY <1>1, <1>9, <1>10, UpStays DEF UnmixedInv
<1>13. RouteInv'
  <2> SUFFICES ASSUME NEW m \in Services PROVE RouteOK(m)'
    BY DEF RouteInv
  <2>1. CASE m # n
    BY <1>1, <1>6, <1>8, <2>1, RouteStays DEF UnmixedInv, RouteInv
  <2>2. CASE m = n
    BY <1>1, <1>6, <1>7, <1>8, <1>10, <2>2 DEF RouteOK
  <2> QED BY <2>1, <2>2
<1>14. \A m \in Services : PortsKept(m)
  BY <1>1 DEF PortsKept
<1>15. \A q : Kept(q)
  BY <1>1 DEF Kept
<1>16. ASSUME NEW m \in Services PROVE StartCurrent(m)'
  <2>1. CASE m # n
    BY <1>1, <1>6, <1>14, <2>1, StartCurrentStays DEF UnmixedInv, RefsInv
  <2>2. CASE m = n
    <3>1. \A d \in Services : Needs(n, d) /\ d # n => handle[d].state # "absent"
      BY <1>10 DEF UnmixedInv, UpInv
    <3>2. Current(n, port, M)
      BY <1>4, <3>1 DEF Current
    <3>3. Current(n, port, M)'
      BY <1>1, <1>14, <3>2, CurrentStays DEF PortsKept
    <3>4. start'[n].svc = resolve_service_ports(config'[n], M) /\ start'[n].port = port
      BY <1>1, <1>6, <1>7
    <3> QED BY <1>4, <2>2, <3>3, <3>4 DEF StartCurrent, Current
  <2> QED BY <2>1, <2>2
<1>17. \A m \in Services : HandleCurrent(m)'
  BY <1>1, <1>14, <1>15, HandleCurrentStays DEF UnmixedInv, RefsInv
<1>18. \A p \in Procs : RecCurrent(p)'
  BY <1>1, <1>14, <1>15, RecCurrentStays, LooseFacts DEF UnmixedInv, RefsInv
<1> QED BY <1>11, <1>12, <1>13, <1>16, <1>17, <1>18 DEF UnmixedInv, RefsInv

LEMMA SpawnUnmixed ==
    ASSUME StateInv, UnmixedInv, NEW n \in Services, Spawn(n)
    PROVE  UnmixedInv'
<1>1. /\ start[n].pc = "spawn" /\ StartsOK(start) /\ ProcsOK(proc)
      /\ UNCHANGED <<file, config, phase, plan, handle, rec, routes, req, issued, mixed>>
  BY DEF Spawn, StateInv, RoutingTypeOK
<1>2. PICK p \in Procs : /\ Born(p, n, start[n].svc, start[n].port)
                         /\ start' = [start EXCEPT ![n].pc = "insert", ![n].pid = p]
  BY DEF Spawn
<1>3. PICK svc, port : svc = start[n].svc /\ port = start[n].port
  OBVIOUS
<1>4. PICK s : s = [pc |-> "insert", port |-> port, svc |-> svc, pid |-> p]
  OBVIOUS
<1>5. StartMoves(n, s)
  BY <1>1, <1>2, <1>3, <1>4, SpawnFacts
<1>6. start'[n] = s /\ \A m \in Services : m # n => start'[m] = start[m]
  BY <1>5 DEF StartMoves
<1>7. s.pc = "insert" /\ s.port = port /\ s.svc = svc
  BY <1>4
<1>8. proc[p].st = "none" /\ \A q \in Procs : q # p => proc'[q] = proc[q]
  <2>1. Born(p, n, svc, port)
    BY <1>2, <1>3
  <2> QED BY <1>1, <2>1, BornFacts
<1>9. \A q : Alive(q) => Kept(q)
  BY <1>8 DEF Alive, Kept
<1>10. \A m \in Services : (start'[m].pc # "idle" <=> start[m].pc # "idle")
           /\ (start'[m].pc \in {"spawn", "insert"} =>
                 start[m].pc \in {"spawn", "insert"} /\ start'[m].port = start[m].port /\ start'[m].svc = start[m].svc)
  BY <1>1, <1>3, <1>6, <1>7
<1>11. \A m \in Services : Up(m)' => Up(m)
  BY <1>1, <1>10 DEF Up
<1>12. PlanInv'
  BY <1>1, <1>10, <1>11, PlanStays DEF UnmixedInv
<1>13. UpInv'
  BY <1>1, <1>10, <1>11, UpStays DEF UnmixedInv
<1>14. RouteInv'
  <2> SUFFICES ASSUME NEW m \in Services PROVE RouteOK(m)'
    BY DEF RouteInv
  <2>1. RouteOK(m) /\ RouteKept(m)
    BY <1>1 DEF UnmixedInv, RouteInv, RouteKept
  <2> QED BY <1>1, <1>10, <2>1, RouteStays
<1>15. \A m \in Services : PortsKept(m)
  BY <1>1 DEF PortsKept
<1>16. \A m \in Services : StartCurrent(m)'
  BY <1>1, <1>10, <1>15, StartCurrentStays DEF UnmixedInv, RefsInv
<1>17. ASSUME NEW m \in Services PROVE HandleCurrent(m)'
  <2>1. handle[m].pid # NoProc => Kept(handle[m].pid)
    BY <1>9 DEF StateInv, HandleInv, HandleOK
  <2> QED BY <1>1, <1>15, <2>1, HandleCurrentStays DEF UnmixedInv, RefsInv
<1>18. ASSUME NEW r \in Procs PROVE RecCurrent(r)'
  <2>1. rec[r].pc = "insert" => Kept(r) /\ Kept(rec[r].pid) /\ proc[r].svc \in Services
    BY <1>9, LooseFacts
  <2>2. rec'[r].pc = "insert" /\ handle'[proc'[r].svc].pid = r =>
               /\ rec'[r] = rec[r] /\ handle[proc[r].svc].pid = r
               /\ Kept(r) /\ Kept(rec[r].pid) /\ proc[r].svc \in Services /\ PortsKept(proc[r].svc)
    BY <1>1, <1>15, <2>1 DEF Kept
  <2> QED BY <1>1, <2>2, RecCurrentStays DEF UnmixedInv, RefsInv
<1> QED BY <1>12, <1>13, <1>14, <1>16, <1>17, <1>18 DEF UnmixedInv, RefsInv

LEMMA InsertUnmixed ==
    ASSUME StateInv, UnmixedInv, NEW n \in Services, Insert(n)
    PROVE  UnmixedInv'
<1>1. start[n].pc = "insert" /\ StartsOK(start) /\ rec \in [Procs -> Recs] /\ handle \in [Services -> Handles]
  BY DEF Insert, StateInv, RoutingTypeOK
<1>2. PICK p, port : p = start[n].pid /\ port = start[n].port
  OBVIOUS
<1>3. /\ Alive(p) /\ p \in Procs /\ rec[p] = NoRec /\ proc[p].svc = n /\ proc[p].port = port /\ port \in Ports
      /\ proc[p].env = Environ(start[n].svc, port, file.os)
  BY <1>1, <1>2 DEF StateInv, StartInv, StartOK, Alive
<1>4. /\ handle' = [handle EXCEPT ![n] = [state |-> "running", port |-> port, pid |-> p]]
      /\ rec' = [rec EXCEPT ![p].pc = "wait"]
      /\ start' = [start EXCEPT ![n] = Idle]
      /\ UNCHANGED <<file, config, phase, plan, proc, routes, req, issued, mixed>>
  BY <1>2 DEF Insert
<1>5. rec'[p].pc = "wait" /\ \A q \in Procs : q # p => rec'[q] = rec[q]
  BY <1>1, <1>3, <1>4, RecMove
<1>6. StartMoves(n, Idle)
  BY <1>1, <1>4, StartMove, IdleFacts
<1>7. start'[n].pc = "idle" /\ \A m \in Services : m # n => start'[m] = start[m]
  BY <1>6, IdleFacts DEF StartMoves
<1>8. /\ handle'[n].state = "running" /\ handle'[n].port = port /\ handle'[n].pid = p
      /\ \A m \in Services : m # n => handle'[m] = handle[m]
  BY <1>1, <1>4
<1>9. p # NoProc /\ handle[n].pid = NoProc /\ Up(n)
  BY <1>1, <1>3 DEF Procs, NoProc, UnmixedInv, UpInv, Up
<1>10. \A m \in Services : Up(m)' => Up(m)
  BY <1>7, <1>8, <1>9 DEF Up
<1>11. PlanInv'
  <2>1. \A d \in Services : handle[d].state # "absent" \/ start[d].pc # "idle" =>
                                   handle'[d].state # "absent" \/ start'[d].pc # "idle"
    BY <1>7, <1>8
  <2> QED BY <1>4, <1>10, <2>1, PlanStays DEF UnmixedInv
<1>12. UpInv'
  <2>1. \A m \in Services : handle'[m].state = "absent" => handle[m].state = "absent"
    BY <1>8
  <2>2. \A m \in Services : start'[m].pc # "idle" => start[m].pc # "idle" /\ handle'[m].pid = handle[m].pid
    BY <1>7, <1>8
  <2> QED BY <1>4, <1>10, <2>1, <2>2, UpStays DEF UnmixedInv
<1>13. RouteInv'
  <2> SUFFICES ASSUME NEW m \in Services PROVE RouteOK(m)'
    BY DEF RouteInv
  <2>1. RouteOK(m) /\ RouteKept(m)
    BY <1>4 DEF UnmixedInv, RouteInv, RouteKept
  <2>2. CASE m # n
    BY <1>4, <1>7, <1>8, <2>1, <2>2, RouteStays
  <2>3. CASE m = n
    <3>1. Unshared(n)' <=> Unshared(n)
      BY <1>4, NeedsStays
    <3> QED BY <1>1, <1>2, <1>4, <1>7, <1>8, <2>1, <2>3, <3>1 DEF RouteOK
  <2> QED BY <2>2, <2>3
\* nothing that is up needs n
<1>14. ASSUME NEW m \in Services, Up(m), m # n PROVE PortsKept(m)
  <2>1. ~Needs(m, n)
    BY <1>1, <1>14 DEF UnmixedInv, UpInv
  <2> QED BY <1>8, <2>1 DEF PortsKept
<1>15. PortsKept(n)
  BY <1>8 DEF PortsKept
<1>16. ASSUME NEW m \in Services PROVE StartCurrent(m)'
  <2>1. CASE m # n
    <3>1. start[m].pc \in {"spawn", "insert"} => PortsKept(m)
      BY <1>14, <2>1 DEF Up
    <3> QED BY <1>4, <1>7, <2>1, <3>1, StartCurrentStays DEF UnmixedInv, RefsInv
  <2>2. CASE m = n
    BY <1>7, <2>2 DEF StartCurrent
  <2> QED BY <2>1, <2>2
<1>17. \A q : Kept(q)
  BY <1>4 DEF Kept
<1>18. ASSUME NEW m \in Services PROVE HandleCurrent(m)'
  <2>1. CASE m # n
    <3>1. handle[m].pid # NoProc => PortsKept(m)
      BY <1>14, <2>1 DEF Up
    <3> QED BY <1>4, <1>8, <1>17, <2>1, <3>1, HandleCurrentStays DEF UnmixedInv, RefsInv
  <2>2. CASE m = n
    <3>1. PICK M \in PortMaps : start[n].svc = resolve_service_ports(config[n], M) /\ Current(n, port, M)
      BY <1>1, <1>2 DEF UnmixedInv, RefsInv, StartCurrent
    <3>2. Current(n, port, M)'
      BY <1>4, <1>15, <3>1, CurrentStays DEF PortsKept
    <3>3. Resolved(proc[p], M)
      BY <1>3, <3>1 DEF Resolved
    <3>4. Resolved(proc[p], M)'
      BY <1>4, <3>3 DEF Resolved
    <3> QED BY <1>8, <2>2, <3>2, <3>4 DEF HandleCurrent, Current, Resolved
  <2> QED BY <2>1, <2>2
<1>19. ASSUME NEW r \in Procs PROVE RecCurrent(r)'
  <2>1. ASSUME rec'[r].pc = "insert", handle'[proc'[r].svc].pid = r
        PROVE  /\ rec'[r] = rec[r] /\ handle[proc[r].svc].pid = r
               /\ Kept(r) /\ Kept(rec[r].pid) /\ proc[r].svc \in Services /\ PortsKept(proc[r].svc)
    <3>1. r # p /\ rec'[r] = rec[r] /\ rec[r].pc # "none"
      BY <1>5, <2>1
    <3>2. proc[r].svc \in Services
      BY <3>1, LooseFacts
    <3>3. proc[r].svc # n
      BY <1>4, <1>8, <2>1, <3>1
    <3>4. handle[proc[r].svc].pid = r /\ r # NoProc
      BY <1>4, <1>8, <2>1, <3>2, <3>3 DEF Procs, NoProc
    <3>5. PortsKept(proc[r].svc)
      BY <1>14, <3>2, <3>3, <3>4 DEF Up
    <3> QED BY <1>17, <3>1, <3>2, <3>4, <3>5
  <2> QED BY <1>4, <2>1, RecCurrentStays DEF UnmixedInv, RefsInv
<1> QED BY <1>11, <1>12, <1>13, <1>16, <1>18, <1>19 DEF UnmixedInv, RefsInv

\* recovery spawns the successor of the process that the handle shows
LEMMA RecSpawnUnmixed ==
    ASSUME StateInv, UnmixedInv, NEW p \in Procs, RecSpawn(p), handle[proc[p].svc].pid = p
    PROVE  UnmixedInv'
<1>1. /\ rec[p].pc = "backoff" /\ rec \in [Procs -> Recs] /\ ProcsOK(proc)
      /\ UNCHANGED <<file, config, phase, plan, start, handle, req, issued>>
  BY DEF RecSpawn, StateInv, RoutingTypeOK
<1>2. PICK n, port, svc :
        n = proc[p].svc /\ port = proc[p].port /\ svc = resolve_service_ports(config[n], RuntimePorts)
  OBVIOUS
<1>3. Alive(p) /\ n \in Services /\ port \in Ports /\ handle[n].pid = p /\ handle[n].state = "running"
  BY <1>1, <1>2, LooseFacts
<1>4. p # NoProc /\ handle[n].port = port /\ start[n].pc = "idle" /\ Up(n)
  BY <1>2, <1>3 DEF Procs, NoProc, StateInv, HandleInv, HandleOK, UnmixedInv, UpInv, Up
<1>5. PICK q \in Procs : Born(q, n, svc, port) /\ rec' = [rec EXCEPT ![p] = [pc |-> "insert", pid |-> q]]
  <2>1. PICK q \in Procs :
          /\ Born(q, proc[p].svc, resolve_service_ports(config[proc[p].svc], RuntimePorts), proc[p].port)
          /\ rec' = [rec EXCEPT ![p] = [pc |-> "insert", pid |-> q]]
    BY DEF RecSpawn
  <2>2. Born(q, n, svc, port)
    BY <1>2, <2>1
  <2> QED BY <2>1, <2>2
<1>6. /\ proc[q].st = "none" /\ \A r \in Procs : r # q => proc'[r] = proc[r]
      /\ proc'[q].svc = n /\ proc'[q].port = port /\ proc'[q].env = Environ(svc, port, file.os)
  <2>1. Born(q, n, svc, port) /\ ProcsOK(proc)
    BY <1>1, <1>5
  <2> QED BY <2>1, BornFacts
<1>7. \A r : Alive(r) => Kept(r)
  BY <1>6 DEF Alive, Kept
<1>8. rec'[p].pid = q /\ \A r \in Procs : r # p => rec'[r] = rec[r]
  BY <1>1, <1>5
<1>9. Update(n, port)
  BY <1>2 DEF RecSpawn
<1>10. /\ config[n].subdomain # "" =>
           config[n].subdomain \in DOMAIN routes' /\ routes'[config[n].subdomain] = port
       /\ \A m \in Services : m # n /\ Unshared(m) => RouteKept(m)
  BY <1>3, <1>9, UpdateFacts
<1>11. \A m \in Services : Up(m)' => Up(m)
  BY <1>1 DEF Up
<1>12. PlanInv'
  BY <1>1, <1>11, PlanStays DEF UnmixedInv
<1>13. UpInv'
  BY <1>1, <1>11, UpStays DEF UnmixedInv
<1>14. RouteInv'
  <2> SUFFICES ASSUME NEW m \in Services PROVE RouteOK(m)'
    BY DEF RouteInv
  <2>1. CASE m # n
    BY <1>1, <1>10, <2>1, RouteStays DEF UnmixedInv, RouteInv
  <2>2. CASE m = n
    BY <1>1, <1>4, <1>10, <2>2 DEF RouteOK
  <2> QED BY <2>1, <2>2
<1>15. \A m \in Services : PortsKept(m)
  BY <1>1 DEF PortsKept
<1>16. \A m \in Services : StartCurrent(m)'
  BY <1>1, <1>15, StartCurrentStays DEF UnmixedInv, RefsInv
<1>17. ASSUME NEW m \in Services PROVE HandleCurrent(m)'
  <2>1. handle[m].pid # NoProc => Kept(handle[m].pid)
    BY <1>7 DEF StateInv, HandleInv, HandleOK
  <2> QED BY <1>1, <1>15, <2>1, HandleCurrentStays DEF UnmixedInv, RefsInv
<1>18. ASSUME NEW r \in Procs PROVE RecCurrent(r)'
  <2>1. CASE r # p
    <3>1. rec[r].pc = "insert" => Kept(r) /\ Kept(rec[r].pid) /\ proc[r].svc \in Services
      BY <1>7, LooseFacts
    <3>2. rec'[r].pc = "insert" /\ handle'[proc'[r].svc].pid = r =>
                 /\ rec'[r] = rec[r] /\ handle[proc[r].svc].pid = r
                 /\ Kept(r) /\ Kept(rec[r].pid) /\ proc[r].svc \in Services /\ PortsKept(proc[r].svc)
      BY <1>1, <1>8, <1>15, <2>1, <3>1 DEF Kept
    <3> QED BY <1>1, <3>2, RecCurrentStays DEF UnmixedInv, RefsInv
  <2>2. CASE r = p
    <3>1. PICK M : M = RuntimePorts
      OBVIOUS
    <3>2. /\ M \in PortMaps
          /\ \A d \in Services : handle[d].state # "absent" => d \in DOMAIN M /\ M[d] = handle[d].port
      BY <3>1, RuntimeFacts
    <3>3. \A d \in Services : Needs(n, d) /\ d # n => handle[d].state # "absent"
      BY <1>3, <1>4 DEF UnmixedInv, UpInv
    <3>4. Current(n, port, M)
      BY <1>3, <1>4, <3>2, <3>3 DEF Current
    <3>5. Current(n, port, M)'
      BY <1>1, <1>3, <1>15, <3>4, CurrentStays DEF PortsKept
    <3>6. Resolved(proc[q], M)'
      BY <1>1, <1>2, <1>6, <3>1 DEF Resolved
    <3>7. proc'[p].svc = n /\ proc'[p].port = port
      BY <1>2, <1>3, <1>7 DEF Kept
    <3> QED BY <1>8, <2>2, <3>2, <3>5, <3>6, <3>7 DEF RecCurrent, Current, Resolved
  <2> QED BY <2>1, <2>2
<1> QED BY <1>12, <1>13, <1>14, <1>16, <1>17, <1>18 DEF UnmixedInv, RefsInv

\* the successor takes its place in the handle, on the same port
LEMMA RecInsertUnmixed ==
    ASSUME StateInv, UnmixedInv, NEW p \in Procs, RecInsert(p), handle[proc[p].svc].pid = p
    PROVE  UnmixedInv'
<1>1. /\ rec[p].pc = "insert" /\ rec \in [Procs -> Recs] /\ handle \in [Services -> Handles] /\ ProcsOK(proc)
      /\ UNCHANGED <<file, config, phase, plan, start, routes, req, issued>>
  BY DEF RecInsert, StateInv, RoutingTypeOK
<1>2. PICK q, n, port : q = rec[p].pid /\ n = proc[p].svc /\ port = proc[p].port
  OBVIOUS
<1>3. /\ n \in Services /\ handle[n].pid = p /\ handle[n].state = "running" /\ q # p /\ q \in Procs
      /\ \A r \in Procs : rec[r].pc = "insert" => rec[r].pid # p /\ rec[r].pid \in Procs /\ Alive(rec[r].pid)
      /\ \A m \in Services : handle[m].pid = p => m = n
  BY <1>1, <1>2, LooseFacts
<1>4. rec[q] = NoRec /\ proc[q].port = port /\ proc[q].svc = n
  BY <1>1, <1>2 DEF StateInv, RecInv, RecOK
<1>5. p # NoProc /\ handle[n].port = port /\ start[n].pc = "idle" /\ q # NoProc
  BY <1>2, <1>3 DEF Procs, NoProc, StateInv, HandleInv, HandleOK, UnmixedInv, UpInv
<1>6. /\ handle' = [handle EXCEPT ![n] = [state |-> "running", port |-> port, pid |-> q]]
      /\ rec' = [rec EXCEPT ![p] = NoRec, ![q].pc = "wait"]
      /\ proc' = [proc EXCEPT ![p] = Reaped]
  BY <1>2, <1>4 DEF RecInsert
<1>7. /\ handle'[n].state = "running" /\ handle'[n].port = port /\ handle'[n].pid = q
      /\ \A m \in Services : m # n => handle'[m] = handle[m]
  BY <1>1, <1>3, <1>6
<1>8. \A r \in Procs : r # p => proc'[r] = proc[r]
  BY <1>1, <1>6, ReapFacts
<1>9. \A r \in Procs : rec'[r].pc = "insert" => r # p /\ r # q /\ rec'[r] = rec[r]
  <2>1. PICK t : t = [rec EXCEPT ![p] = NoRec]
    OBVIOUS
  <2>2. t \in [Procs -> Recs] /\ t[p] = NoRec /\ \A r \in Procs : r # p => t[r] = rec[r]
    BY <1>1, <2>1, NoRecFacts
  <2>3. rec' = [t EXCEPT ![q].pc = "wait"]
    BY <1>6, <2>1
  <2>4. rec'[q].pc = "wait" /\ \A r \in Procs : r # q => rec'[r] = t[r]
    <3>1. PICK u : u = t[q]
      OBVIOUS
    <3>2. u \in Recs
      BY <1>3, <2>2, <3>1
    <3>3. PICK v : v = [u EXCEPT !.pc = "wait"]
      OBVIOUS
    <3>4. v.pc = "wait"
      BY <3>2, <3>3 DEF Recs
    <3>5. rec' = [t EXCEPT ![q] = v]
      BY <2>3, <3>1, <3>3
    <3> QED BY <1>3, <2>2, <3>4, <3>5
  <2> QED BY <1>3, <2>2, <2>4, NoRecFacts
<1>10. \A m \in Services : PortsKept(m) /\ handle'[m].port = handle[m].port /\ (Up(m)' => Up(m))
  BY <1>1, <1>3, <1>5, <1>7 DEF PortsKept, Up
<1>11. PlanInv'
  <2>1. \A d \in Services : handle[d].state # "absent" => handle'[d].state # "absent"
    BY <1>7
  <2> QED BY <1>1, <1>10, <2>1, PlanStays DEF UnmixedInv
<1>12. UpInv'
  <2>1. \A m \in Services : handle'[m].state = "absent" => handle[m].state = "absent"
    BY <1>7
  <2>2. \A m \in Services : start'[m].pc # "idle" => start[m].pc # "idle" /\ handle'[m].pid = handle[m].pid
    BY <1>1, <1>5, <1>7
  <2> QED BY <1>1, <1>10, <2>1, <2>2, UpStays DEF UnmixedInv
<1>13. RouteInv'
  <2> SUFFICES ASSUME NEW m \in Services PROVE RouteOK(m)'
    BY DEF RouteInv
  <2>1. RouteOK(m) /\ RouteKept(m)
    BY <1>1 DEF UnmixedInv, RouteInv, RouteKept
  <2>2. handle'[m].pid # NoProc => handle[m].pid # NoProc
    BY <1>3, <1>5, <1>7
  <2> QED BY <1>1, <1>10, <2>1, <2>2, RouteStays
<1>14. \A m \in Services : StartCurrent(m)'
  BY <1>1, <1>10, StartCurrentStays DEF UnmixedInv, RefsInv
<1>15. ASSUME NEW m \in Services PROVE HandleCurrent(m)'
  <2>1. CASE m # n
    <3>1. handle[m].pid # NoProc => Kept(handle[m].pid)
      BY <1>3, <1>8, <2>1 DEF StateInv, HandleInv, HandleOK, Alive, Kept
    <3> QED BY <1>1, <1>7, <1>10, <2>1, <3>1, HandleCurrentStays DEF UnmixedInv, RefsInv
  <2>2. CASE m = n
    <3>1. PICK M \in PortMaps : Resolved(proc[q], M) /\ Current(n, port, M)
      BY <1>1, <1>2, <1>3 DEF UnmixedInv, RefsInv, RecCurrent
    <3>2. Current(n, port, M)'
      BY <1>1, <1>3, <1>10, <3>1, CurrentStays
    <3>3. Resolved(proc[q], M)'
      BY <1>1, <1>3, <1>8, <3>1 DEF Resolved
    <3> QED BY <1>7, <2>2, <3>2, <3>3 DEF HandleCurrent, Current, Resolved
  <2> QED BY <2>1, <2>2
<1>16. ASSUME NEW r \in Procs PROVE RecCurrent(r)'
  <2>1. ASSUME rec'[r].pc = "insert", handle'[proc'[r].svc].pid = r
        PROVE  /\ rec'[r] = rec[r] /\ handle[proc[r].svc].pid = r
               /\ Kept(r) /\ Kept(rec[r].pid) /\ proc[r].svc \in Services /\ PortsKept(proc[r].svc)
    <3>1. r # p /\ r # q /\ rec'[r] = rec[r] /\ rec[r].pc = "insert"
      BY <1>9, <2>1
    <3>2. proc[r].svc \in Services /\ rec[r].pid # p /\ rec[r].pid \in Procs
      BY <1>3, <3>1, LooseFacts
    <3>3. Kept(r) /\ Kept(rec[r].pid)
      BY <1>8, <3>1, <3>2 DEF Kept
    <3>4. handle[proc[r].svc].pid = r
      BY <1>7, <2>1, <3>1, <3>2, <3>3 DEF Kept
    <3> QED BY <1>10, <3>1, <3>2, <3>3, <3>4
  <2> QED BY <1>1, <2>1, RecCurrentStays DEF UnmixedInv, RefsInv
<1> QED BY <1>11, <1>12, <1>13, <1>14, <1>15, <1>16 DEF UnmixedInv, RefsInv

\* the proxy reads the route of a process that listens
LEMMA LookUpInv ==
    ASSUME StateInv, UnmixedInv, NEW n \in Services, LookUp(n)
    PROVE  StateInv' /\ UnmixedInv'
<1>1. PICK p, sub, port :
        /\ p = handle[n].pid /\ sub = config[n].subdomain
        /\ port = IF sub \in DOMAIN routes THEN routes[sub] ELSE AutoPort
  OBVIOUS
<1>2. /\ phase = "up" /\ sub # "" /\ p # NoProc /\ Holds(p)
      /\ req' = [svc |-> n, pid |-> p, port |-> port]
      /\ UNCHANGED <<file, config, phase, plan, start, handle, proc, rec, routes, issued, mixed>>
  BY <1>1 DEF LookUp
<1>3. p \in Procs /\ proc[p].svc = n /\ proc[p].port = handle[n].port
  BY <1>1, <1>2 DEF StateInv, HandleInv, HandleOK, Alive
<1>4. req'.svc = n /\ req'.pid = p /\ req'.port = port
  BY <1>2
<1>5. Unshared(n) => port = handle[n].port
  BY <1>1, <1>2 DEF UnmixedInv, RouteInv, RouteOK
<1>6. Unshared(n)' <=> Unshared(n)
  BY <1>2, NeedsStays
<1>7. ReqInv'
  <2>1. proc'[p].st # "none"
    BY <1>2 DEF Holds
  <2>2. Unshared(n)' => proc'[p].port = port /\ proc'[p].svc = n
    BY <1>2, <1>3, <1>5, <1>6
  <2> QED BY <1>4, <2>1, <2>2 DEF ReqInv, Unshared
<1>8. req' = [svc |-> req'.svc, pid |-> req'.pid, port |-> req'.port] /\ req'.pid \in Pids
  BY <1>2, <1>3, <1>4 DEF Pids
<1>9. mixed' \in BOOLEAN /\ plan' \in Seq(PlanSteps)
  BY <1>2 DEF StateInv, RoutingTypeOK
<1>10. StateInv'
  BY <1>2, <1>7, <1>8, <1>9, QuietState
<1>11. UnmixedInv'
  BY <1>2, QuietUnmixed DEF Kept
<1> QED BY <1>10, <1>11

\* it forwards the request, and is ready for another
LEMMA ForwardInv ==
    ASSUME StateInv, UnmixedInv, Forward
    PROVE  StateInv' /\ UnmixedInv'
<1>1. /\ phase = "up" /\ req' = NoReq
      /\ UNCHANGED <<file, config, phase, plan, start, handle, proc, rec, routes, issued, mixed>>
  BY DEF Forward
<1>2. req'.pid = NoProc /\ req' = [svc |-> req'.svc, pid |-> req'.pid, port |-> req'.port]
  BY <1>1 DEF NoReq
<1>3. ReqInv'
  BY <1>2 DEF ReqInv
<1>4. mixed' \in BOOLEAN /\ plan' \in Seq(PlanSteps) /\ req'.pid \in Pids
  BY <1>1, <1>2 DEF StateInv, RoutingTypeOK, Pids
<1>5. StateInv'
  BY <1>1, <1>2, <1>3, <1>4, QuietState
<1>6. UnmixedInv'
  BY <1>1, QuietUnmixed DEF Kept
<1> QED BY <1>5, <1>6

\* a restart is planned
LEMMA RestartInv ==
    ASSUME StateInv, UnmixedInv, NEW n \in Services, RestartRequest(n)
    PROVE  StateInv' /\ UnmixedInv'
<1>1. /\ phase = "up"
      /\ UNCHANGED <<file, config, phase, start, handle, proc, rec, routes, req, mixed>>
  BY DEF RestartRequest, Quiescent
<1>2. UnmixedInv' /\ plan' \in Seq(PlanSteps)
  BY RestartUnmixed
<1>3. ReqInv'
  <2>1. req.pid # NoProc => proc[req.pid].st # "none"
    BY DEF StateInv, ReqInv
  <2> QED BY <1>1, <2>1, ReqStays DEF StateInv, Kept
<1>4. /\ mixed' \in BOOLEAN /\ req'.pid \in Pids
      /\ req' = [svc |-> req'.svc, pid |-> req'.pid, port |-> req'.port]
  BY <1>1 DEF StateInv, RoutingTypeOK
<1> QED BY <1>1, <1>2, <1>3, <1>4, QuietState

\* a process binds its port or exits
LEMMA LivesUnmixed ==
    ASSUME StateInv, UnmixedInv, NEW p \in Procs, Bind(p) \/ Exit(p)
    PROVE  UnmixedInv'
<1>1. ProcsOK(proc) /\ UNCHANGED <<file, config, phase, plan, start, handle, rec, routes>>
  BY DEF StateInv, RoutingTypeOK, Bind, Exit
<1>2. \A q \in Procs : Kept(q)
  <2>1. CASE Bind(p)
    BY <1>1, <2>1, BindFacts
  <2>2. CASE Exit(p)
    <3>1. Kept(p) /\ \A q \in Procs : q # p => proc'[q] = proc[q]
      BY <1>1, <2>2, ExitFacts
    <3> QED BY <3>1 DEF Kept
  <2> QED BY <2>1, <2>2
<1> QED BY <1>1, <1>2, QuietUnmixed

------------------------------------------------------------------------------
(***************************** The theorems *******************************)

LEMMA InitInv == Init => RoutingInv
<1> SUFFICES ASSUME Init PROVE RoutingInv
  OBVIOUS
<1>1. Bare /\ Fresh
  BY InitBare
<1>2. StateInv
  BY <1>1, BareState
<1>3. plan = <<>> /\ phase = "load"
  BY DEF Init
<1>4. PlanForm(plan) /\ PlanOrder(plan) /\ Planned
  BY <1>3 DEF PlanForm, PlanOrder, Planned, Verbs, StartsOnce, StopsSingly, Has
<1>5. UnmixedInv
  BY <1>1, <1>4, BarePlanned
<1> QED BY <1>2, <1>5 DEF RoutingInv

LEMMA StutterInv ==
    ASSUME RoutingInv, UNCHANGED vars
    PROVE  RoutingInv'
<1>1. UNCHANGED <<file, config, phase, plan, start, handle, proc, rec, routes, req, issued, mixed>>
  BY DEF vars
<1>2. StateInv
  BY DEF RoutingInv
<1>3. ReqInv'
  <2>1. req.pid # NoProc => proc[req.pid].st # "none"
    BY <1>2 DEF StateInv, ReqInv
  <2> QED BY <1>1, <1>2, <2>1, ReqStays DEF StateInv, Kept
<1>4. /\ mixed' \in BOOLEAN /\ req'.pid \in Pids /\ plan' \in Seq(PlanSteps)
      /\ req' = [svc |-> req'.svc, pid |-> req'.pid, port |-> req'.port]
  BY <1>1, <1>2 DEF StateInv, RoutingTypeOK
<1>5. StateInv'
  BY <1>1, <1>2, <1>3, <1>4, QuietState
<1>6. UnmixedInv => UnmixedInv'
  BY <1>1, <1>2, QuietUnmixed DEF Kept
<1> QED BY <1>1, <1>5, <1>6 DEF RoutingInv

\* the steps of one service
LEMMA ServiceInv ==
    ASSUME StateInv, UnmixedInv, NEW n \in Services,
           \/ RestartRequest(n) \/ UiStop(n) \/ LookUp(n)
           \/ Claim(n) \/ Spawn(n) \/ SpawnPanics(n) \/ Insert(n)
    PROVE  StateInv' /\ UnmixedInv'
<1>1. CASE RestartRequest(n)
  BY <1>1, RestartInv
<1>2. CASE UiStop(n)
  <2>1. phase = "up" /\ Stop(n) /\ plan' = plan
    BY <1>2 DEF UiStop
  <2>2. StateInv'
    BY <2>1, StopState DEF StateInv, RoutingTypeOK
  <2>3. UnmixedInv'
    BY <2>1, StopUnmixed DEF UnmixedInv
  <2> QED BY <2>2, <2>3
<1>3. CASE LookUp(n)
  BY <1>3, LookUpInv
<1>4. CASE Claim(n)
  BY <1>4, ClaimState, ClaimUnmixed
<1>5. CASE Spawn(n)
  BY <1>5, SpawnState, SpawnUnmixed
<1>6. CASE SpawnPanics(n)
  BY <1>6, PanicState, PanicUnmixed
<1>7. CASE Insert(n)
  BY <1>7, InsertState, InsertUnmixed
<1> QED BY <1>1, <1>2, <1>3, <1>4, <1>5, <1>6, <1>7

\* the steps of one process and its recovery task
LEMMA ProcessInv ==
    ASSUME StateInv, UnmixedInv, NEW p \in Procs,
           Bind(p) \/ Exit(p) \/ RecCheck(p) \/ RecSpawn(p) \/ RecInsert(p)
    PROVE  StateInv' /\ (~mixed' => UnmixedInv')
<1>1. CASE Bind(p)
  BY <1>1, BindState, LivesUnmixed
<1>2. CASE Exit(p)
  BY <1>2, ExitState, LivesUnmixed
<1>3. CASE RecCheck(p)
  BY <1>3, RecCheckState, RecCheckUnmixed
<1>4. CASE RecSpawn(p)
  <2>1. StateInv'
    BY <1>4, RecSpawnState
  <2>2. ~mixed' => handle[proc[p].svc].pid = p
    BY <1>4 DEF RecSpawn, Mixed
  <2> QED BY <1>4, <2>1, <2>2, RecSpawnUnmixed
<1>5. CASE RecInsert(p)
  <2>1. StateInv'
    BY <1>5, RecInsertState
  <2>2. ~mixed' => handle[proc[p].svc].pid = p
    BY <1>5 DEF RecInsert, Mixed
  <2> QED BY <1>5, <2>1, <2>2, RecInsertUnmixed
<1> QED BY <1>1, <1>2, <1>3, <1>4, <1>5

LEMMA NextInv ==
    ASSUME RoutingInv, Next
    PROVE  RoutingInv'
<1>1. StateInv /\ UnmixedInv /\ ~mixed
  BY DEF RoutingInv, Next
<1>2. CASE Load
  <2>1. StateInv'
    BY <1>1, <1>2, LoadFacts, BareStateNext
  <2>2. UnmixedInv'
    BY <1>1, <1>2, LoadUnmixed
  <2> QED BY <2>1, <2>2 DEF RoutingInv
<1>3. CASE BeginStarts
  BY <1>1, <1>3, BeginState, BeginUnmixed DEF RoutingInv
<1>4. CASE StopStep
  <2>1. PICK n \in Head(plan).names : Stop(n)
    BY <1>4 DEF StopStep
  <2>2. phase = "up" /\ plan # <<>> /\ plan' = Tail(plan) /\ plan \in Seq(PlanSteps)
    BY <1>1, <1>4 DEF StopStep, Quiescent, StateInv, RoutingTypeOK
  <2>3. n \in Services /\ plan' \in Seq(PlanSteps)
    <3>1. Head(plan) \in PlanSteps /\ plan' \in Seq(PlanSteps)
      BY <2>2
    <3>2. Head(plan).names \subseteq Services
      BY <3>1 DEF PlanSteps
    <3> QED BY <2>1, <3>1, <3>2
  <2>4. StateInv'
    BY <1>1, <2>1, <2>2, <2>3, StopState
  <2>5. UnmixedInv'
    BY <1>1, <1>4, StopStepUnmixed
  <2> QED BY <2>4, <2>5 DEF RoutingInv
<1>5. CASE Forward
  BY <1>1, <1>5, ForwardInv DEF RoutingInv
<1>6. ASSUME NEW n \in Services,
             \/ RestartRequest(n) \/ UiStop(n) \/ LookUp(n)
             \/ Claim(n) \/ Spawn(n) \/ SpawnPanics(n) \/ Insert(n)
      PROVE  RoutingInv'
  BY <1>1, <1>6, ServiceInv DEF RoutingInv
<1>7. ASSUME NEW p \in Procs, Bind(p) \/ Exit(p) \/ RecCheck(p) \/ RecSpawn(p) \/ RecInsert(p)
      PROVE  RoutingInv'
  BY <1>1, <1>7, ProcessInv DEF RoutingInv
<1> QED BY <1>2, <1>3, <1>4, <1>5, <1>6, <1>7 DEF Next

\* the invariant holds of every behaviour: what handles, start_service,
\* recovery tasks and routes say about processes and ports agrees, whatever
\* order the operations, the crashes and the requests come in
THEOREM RoutingInvariant == Spec => []RoutingInv
<1>1. Init => RoutingInv
  BY InitInv
<1>2. RoutingInv /\ [Next]_vars => RoutingInv'
  BY NextInv, StutterInv
<1> QED BY <1>1, <1>2, PTL DEF Spec

\* whatever the files say, every process ever spawned has exactly the
\* variables that the documented precedence gives it: from_file_with_env,
\* start_service and crash recovery together
THEOREM EnvExactHolds == Spec => []EnvExact
<1>1. RoutingInv => EnvExact
  BY InvExact DEF RoutingInv
<1> QED BY <1>1, RoutingInvariant, PTL

\* ${name.port} in the variables of a process that a handle shows is the port
\* that the service has now, after any number of restarts, stops and
\* recoveries (start_all's waves, restart_service, spawn_crash_recovery)
THEOREM RefsCurrentHolds == Spec => []RefsCurrent
  BY InvRefs, RoutingInvariant, PTL

\* a request is answered by the service it is meant for, or by nobody,
\* although its port is looked up before it is used (ProxyRouter)
THEOREM RequestReachesHolds == Spec => []RequestReaches
<1>1. RoutingInv => RequestReaches
  BY InvReaches DEF RoutingInv
<1> QED BY <1>1, RoutingInvariant, PTL
=============================================================================
