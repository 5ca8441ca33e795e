----------------------------- MODULE MCServices -----------------------------
\* The services that share no state, in small instances, checked by one run.
EXTENDS Services, Sequences

CONSTANTS r1, r2, c1, c2, l1, l2, u1, u2, k1

\* Three logins of two sources, two at a time; two failures block a source.
MCLogins == {r1, r2, l1}

\* Updates that enable with a new credential, and that clear it.
MCKinds == {[enabled |-> TRUE, credential |-> "new"], [enabled |-> FALSE, credential |-> "clear"]}

\* Two prereleases with a draft between them, the newer one first, and a full release alone.
Ver(parts, test) == [parts |-> parts, test |-> test]
Release(parts, draft, prerelease, assets) ==
    [version |-> Ver(parts, FALSE), draft |-> draft, prerelease |-> prerelease, assets |-> assets]
Complete == {"binary", "rpm", "deb", "checksums"}
Older == Release(<<1, 0, 0, 1>>, FALSE, TRUE, Complete)
Later == Release(<<1, 0, 1, 0>>, FALSE, TRUE, Complete)
Full  == Release(<<1, 1, 0>>, FALSE, FALSE, Complete \ {"checksums"})
Draft == Release(<<1, 1, 0, 1>>, TRUE, TRUE, Complete \ {"deb"})

MCReleases == {Older, Later, Full, Draft}
MCListings == {<<Older, Draft, Later>>, <<Later, Older>>, <<Full>>}
MCVersions == {Ver(<<1, 0, 0, 1>>, FALSE), Ver(<<1, 0, 0>>, FALSE)}

\* Two sources; rows of one second in one file and in two sources, and of two days.
LogRow(date, source, ts, pos, ips) ==
    [date |-> date, source |-> source, ts |-> ts, pos |-> pos, ips |-> ips]
Query(start, end, source, ip) == [start |-> start, end |-> end, source |-> source, ip |-> ip]

MCRows == {LogRow(0, 1, 1, 1, {"a"}), LogRow(0, 1, 1, 2, {"a", "b"}),
           LogRow(0, 2, 1, 1, {"a"}), LogRow(1, 1, 2, 1, {"a"})}
MCQueries == {Query(0, 1, None, None), Query(1, 3, None, "a"), Query(0, 3, None, None)}

\* Clocks, once in an order of texts that is not that of the times, and intervals: none, below
\* a minute, dividing the day of six seconds, not dividing it, and longer than it.
MCSchedules == {[clocks |-> c, interval |-> 6] : c \in {<<2>>, <<0, 4, 4>>, <<1, 3, 5>>, <<3, 1>>}}
                  \cup {[clocks |-> <<>>, interval |-> i] : i \in {0, 1, 2, 3, 4, 5, 6, 8}}
=============================================================================
