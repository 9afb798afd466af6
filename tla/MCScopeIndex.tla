---------------------------- MODULE MCScopeIndex ----------------------------
(***************************************************************************)
(* An instance of ScopeIndex for TLC: two names, one of them within the    *)
(* word `class', and a sample of every form of expression and signature.   *)
(***************************************************************************)
EXTENDS SemanticTokens

MCNames == {"a", "b"}
MCWithin == {<<"class", "a", 2>>, <<"as", "a", 1>>, <<"b", "a", 2>>}
MCBuiltins == {"b"}
MCSelves == {"a"}

Sample(form, names) == [form |-> form, names |-> names]
MCExprs == {Absent, Sample("uses", <<"b", Missing>>),
            Sample("choice", <<"a", "b", "a">>), Sample("walrus", <<"b", "a">>),
            Sample("lambda", <<"a", "a", "b">>),
            Sample("comprehension", <<"a", "a", "b", "a">>)}
MCTargets == {Sample("tuple", <<"a", "b">>), Sample("uses", <<"b">>)}

Parameter(name, annotation, default, keyword) ==
  [name |-> name, annotation |-> annotation, default |-> default, keyword |-> keyword]
Use(name) == Sample("name", <<name>>)
Lambda == Sample("lambda", <<"a", "a", "b">>)
MCSignatures ==
  {[decorators |-> <<>>, params |-> <<>>, returns |-> Absent],
   [decorators |-> <<Use("b")>>, params |-> <<Parameter("b", Absent, Absent, FALSE)>>,
    returns |-> Use("b")],
   [decorators |-> <<>>,
    params |-> <<Parameter("a", Use("b"), Use("b"), FALSE),
                 Parameter("b", Absent, Use("a"), TRUE)>>,
    returns |-> Absent],
   [decorators |-> <<>>, params |-> <<Parameter("b", Absent, Lambda, FALSE)>>,
    returns |-> Absent],
   [decorators |-> <<Lambda>>, params |-> <<>>, returns |-> Absent]}
MCHeaders ==
  {[decorators |-> <<>>, bases |-> <<>>], [decorators |-> <<>>, bases |-> <<Use("a")>>],
   [decorators |-> <<Use("b")>>, bases |-> <<Lambda>>]}
===============================================================================
