----------------------------- MODULE MCEstimates -----------------------------
(***************************************************************************)
(* A small instance of Estimates: six resources, and catalogues of up to   *)
(* three dimensions beside the storage.                                    *)
(***************************************************************************)
EXTENDS Estimates

Volume == [type |-> "ebs_volume", class |-> "gp3", state |-> "available",
           attachments |-> 0, size |-> 2, iops |-> 4, throughput |-> 1,
           association |-> None, instance |-> None, interface |-> None,
           pool |-> None, customerOwned |-> FALSE]
Address == [Volume EXCEPT !.type = "elastic_ip", !.class = "", !.pool = "amazon"]

MCResources ==
    {Volume, [Volume EXCEPT !.throughput = None, !.attachments = None],
     [Volume EXCEPT !.class = "io2", !.iops = 3], [Volume EXCEPT !.attachments = 1],
     Address, [Address EXCEPT !.pool = "own"]}

Gp3 == <<"ebs_volume", "gp3">>
Io2 == <<"ebs_volume", "io2">>
Ip  == <<"elastic_ip", "">>

Dim(of, unit, begin, end, rate) ==
    [of |-> of, unit |-> unit, begin |-> begin, end |-> end, rate |-> rate,
     currency |-> "USD", idle |-> TRUE]

Storage == {Dim(Gp3, "GB-Mo", 0, None, 5), Dim(Io2, "GB-month", 0, None, 7)}

Others ==
    {Dim(Gp3, "IOPS-Mo", 0, 1, 1), Dim(Gp3, "IOPS-Mo", 1, None, 2),
     Dim(Gp3, "IOPS-Mo", 0, None, 3), Dim(Gp3, "GB-Mo", 0, None, 4),
     Dim(Gp3, "GiB-Mo", 0, None, 4), Dim(Io2, "IOPS-Mo", 0, 2, 3),
     Dim(Io2, "IOPS-Mo", 2, None, 1), Dim(Io2, "Other", 0, None, 9),
     Dim(Ip, "Hrs", 0, None, 1), [Dim(Ip, "Hrs", 0, None, 8) EXCEPT !.idle = FALSE],
     [Dim(Ip, "Hrs", 0, 2, 8) EXCEPT !.currency = "CNY"]}

MCCatalogues == {Storage \cup more : more \in UNION {kSubset(n, Others) : n \in 0..3}}
=============================================================================
