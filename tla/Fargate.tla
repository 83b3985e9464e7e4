------------------------------ MODULE Fargate -------------------------------
\* The sizes of a Fargate task (src/docex/cicl/fargate.py) and what a service's
\* resources become on elastic (_resources_to_elastic in cicl/compile.py).
\* CPU is in units of 1/1024 vCPU, memory in MiB; what is authored is in
\* hundredths of a vCPU and in MB.
EXTENDS Naturals

Cpus == {256, 512, 1024, 2048, 4096, 8192, 16384}

\* The memory that goes with a CPU: from Floor to Ceiling in steps, but for the
\* smallest, whose sizes double.
Floor(cpu) == IF cpu = 256 THEN 512 ELSE 2 * cpu
Ceiling(cpu) ==
    CASE cpu = 256 -> 2048 [] cpu = 512 -> 4096 [] cpu = 1024 -> 8192 [] cpu = 2048 -> 16384
      [] cpu = 4096 -> 30720 [] cpu = 8192 -> 61440 [] OTHER -> 122880
Step(cpu) == CASE cpu = 8192 -> 4096 [] cpu = 16384 -> 8192 [] OTHER -> 1024

IsMemory(cpu, m) ==
    IF cpu = 256 THEN m \in {512, 1024, 2048}
    ELSE m \in Floor(cpu)..Ceiling(cpu) /\ m % Step(cpu) = 0
IsTier(pair) == pair[1] \in Cpus /\ IsMemory(pair[1], pair[2])

\* _round_cpu_to_fargate: more than the largest is taken for the largest.
RoundCpu(units) ==
    IF units <= 256 THEN 256 ELSE IF units <= 512 THEN 512 ELSE IF units <= 1024 THEN 1024
    ELSE IF units <= 2048 THEN 2048 ELSE IF units <= 4096 THEN 4096
    ELSE IF units <= 8192 THEN 8192 ELSE 16384

\* The least memory of this CPU that is enough.
FitMemory(cpu, m) ==
    IF m <= Floor(cpu) THEN Floor(cpu)
    ELSE IF cpu = 256 THEN IF m <= 1024 THEN 1024 ELSE 2048
    ELSE Step(cpu) * ((m + Step(cpu) - 1) \div Step(cpu))

\* The least CPU from this one on whose memory goes far enough.
CpuFor(cpu, m) ==
    IF cpu <= 256 /\ m <= 2048 THEN 256 ELSE IF cpu <= 512 /\ m <= 4096 THEN 512
    ELSE IF cpu <= 1024 /\ m <= 8192 THEN 1024 ELSE IF cpu <= 2048 /\ m <= 16384 THEN 2048
    ELSE IF cpu <= 4096 /\ m <= 30720 THEN 4096 ELSE IF cpu <= 8192 /\ m <= 61440 THEN 8192
    ELSE 16384

NoPair == <<0, 0>>
fargate_pair_from_units(units, m) ==
    LET cpu == CpuFor(RoundCpu(units), m)
    IN  IF m > 122880 THEN NoPair ELSE <<cpu, FitMemory(cpu, m)>>

-----------------------------------------------------------------------------
\* round() goes to the even number from half-way. What is authored is split so
\* that no product leaves the integers of the model checker.
Rounded(whole, rest, d) ==
    whole + (IF 2 * rest > d \/ (2 * rest = d /\ whole % 2 = 1) THEN 1 ELSE 0)
AtLeastOne(n) == IF n = 0 THEN 1 ELSE n

CpuUnits(hundredths) ==
    AtLeastOne(Rounded((hundredths * 1024) \div 100, (hundredths * 1024) % 100, 100))
WholeMib(mb) == (mb \div 16384) * 15625 + ((mb % 16384) * 15625) \div 16384
PartMib(mb) == ((mb % 16384) * 15625) % 16384      \* in 1/16384 MiB
MemoryMib(mb) == Rounded(WholeMib(mb), PartMib(mb), 16384)
DiskGib(mb) ==
    LET mib == WholeMib(mb) + (IF PartMib(mb) = 0 THEN 0 ELSE 1)
    IN  AtLeastOne((mib + 1023) \div 1024)

SIDECAR_CPU == 10          \* hundredths of a vCPU, the collector's share
SIDECAR_CPU_UNITS == 102   \* as the task definition gives it
SIDECAR_MIB == 128
DISK_MIN_GIB == 21
DISK_MAX_GIB == 200

ElasticPair(cpu, mb, sidecar) ==
    fargate_pair_from_units(CpuUnits(cpu + (IF sidecar THEN SIDECAR_CPU ELSE 0)),
                            MemoryMib(mb) + (IF sidecar THEN SIDECAR_MIB ELSE 0))

\* A disk of 0 is one that is not asked for.
SizesOnElastic(cpu, mb, disk, sidecar) ==
    /\ ElasticPair(cpu, mb, sidecar) # NoPair
    /\ disk # 0 => DiskGib(disk) \in DISK_MIN_GIB..DISK_MAX_GIB

\* A migration task takes the largest CPU and the largest memory of the
\* codebase's services, made a pair again.
MigrationPair(a, b) ==
    LET most(i) == IF a[i] >= b[i] THEN a[i] ELSE b[i]
    IN  fargate_pair_from_units(most(1), most(2))
=============================================================================
