------------------------ MODULE MCResolverService ------------------------
EXTENDS ResolverService

CONSTANTS t1, t2, a, b

\* A service of the program's own, with a resolver as a member.
UserNeeds == [k \in Keys |-> CASE k = "scheduler" -> <<>>
                               [] k = "resolver" -> <<"scheduler">>
                               [] k = "user" -> <<"resolver">>]

\* One thread asks for it, the other for what its constructor needs.
SomeWants == [t \in Threads |-> IF t = t1 THEN {"user"} ELSE {"resolver"}]
=============================================================================
