--------------------------- MODULE MCNativeRelease ---------------------------
(* Small instances of NativeRelease. *)
EXTENDS NativeRelease

CONSTANTS a1, a2, v1, v2, v3, s1, s2, e0, e1, e2

\* Three releases; v1 built twice, v2 deployed with either env.
SomeBuilds ==
    {<<v1, s1, e1>>, <<v1, s2, e1>>, <<v2, s1, e1>>, <<v2, s1, e2>>, <<v3, s1, e2>>}

\* v3 never works, v1 does not with the contents s2 or the env e2.  The
\* program's build s1 works with e1, s2 with either env, none without one.
SomeWork == {<<v1, s1, e1>>, <<v2, s1, e1>>, <<v2, s1, e2>>,
             <<None, s1, e1>>, <<None, s2, e1>>, <<None, s2, e2>>}

\* One build of each release, all of them good.
PlainBuilds == Ids \X {s1} \X {e1}
=============================================================================
