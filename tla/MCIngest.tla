-------------------------------- MODULE MCIngest --------------------------------
\* Three deliveries.  Two batches share the default key, one of them an anomaly with a
\* mock's; a response; two readings of one moment.
EXTENDS Ingest

Of(kind, key, items, mode, at) == [kind |-> kind, key |-> key, items |-> items, mode |-> mode, at |-> at]
SomePayloads ==
  {Of("investigation", "BATCH-001", {"a"}, "simulated", 0), Of("investigation", "BATCH-001", {"b"}, "simulated", 0),
   Of("investigation", "b-2", {"b", "c"}, "mock_agent_data", 0), Of("response", "r-1", {"r"}, "simulated", 0),
   Of("reading", "sim:1", {"-"}, "simulated", 1), Of("reading", "seed:1", {"-"}, "simulated", 1)}
\* The cluster of a response alone; or all names but a device, which is disabled.
SomeFiles == {[on |-> {"cluster"}, off |-> {}], [on |-> {"finding", "incident", "cluster"}, off |-> {"device"}]}
==============================================================================
