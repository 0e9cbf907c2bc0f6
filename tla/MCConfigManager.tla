--------------------------- MODULE MCConfigManager ---------------------------
EXTENDS ConfigManager, TLC

CONSTANTS c1, c2, c3, c4, s1, s2, orders, api, all, admin, a1, a2, http, https, ok, bad

MCCalls == {c1, c2, c3, c4}
MCServices == {s1, s2}

On(rt, roles) == [route |-> rt, roles |-> roles]
At(address, scheme) == [address |-> address, scheme |-> scheme]
Reg(s, settings, endpoints, instance) ==
    [kind |-> "register", service |-> s, settings |-> settings,
     endpoints |-> endpoints, instance |-> instance]

\* One service moves between route lists with and without the wildcard route and between
\* instances; the other competes for both routes, the second one after it has got the first.
\* One list names a route twice, one payload is refused by a validator.
MCRegistrations ==
    {Reg(s1, ok, <<On(orders, all), On(api, all)>>, At(a1, http)),
     Reg(s1, ok, <<On(orders, admin)>>, At(a2, http)),
     Reg(s1, ok, <<On(api, admin)>>, At(a1, https)),
     Reg(s2, ok, <<On(orders, all), On(api, all)>>, At(a1, http)),
     Reg(s2, ok, <<On(api, all)>>, At(a1, http)),
     Reg(s2, ok, <<On(api, all), On(api, admin)>>, At(a1, http)),
     Reg(s2, bad, <<On(api, all)>>, At(a1, http))}

MCDeregistrations ==
    {[kind |-> "deregister", service |-> s1, address |-> a1],
     [kind |-> "deregister", service |-> s2, address |-> a1]}

\* Select is SelectSeq.
ASSUME SelectsLikeSelectSeq ==
    \A n \in 0..4 : \A list \in [1..n -> 0..2] :
        LET Test(x) == x # 0
        IN Select(list, {i \in DOMAIN list : Test(list[i])}) = SelectSeq(list, Test)

MCSymmetry == Permutations(MCCalls)
=============================================================================
