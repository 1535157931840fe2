----------------------------- MODULE MCSpiFlash -----------------------------
(* Values of the constants of SpiFlash for TLC, after the configurations   *)
(* of src/src/spi/spitest.rs.                                              *)
EXTENDS SpiFlash

Plain ==
  [ctrl |-> "Fmc", max_cs |-> 2, master_idx |-> 0,
   pure_spi_mode_only |-> FALSE, timing_calibration_disabled |-> TRUE,
   calibrated |-> FALSE, frequency |-> 50, dma |-> TRUE,
   dma_write |-> FALSE, irq |-> FALSE, capacity |-> 64]

(* FMC_CONFIG, SPI0_CONFIG and SPI1_CONFIG of spitest.rs, and what they    *)
(* leave out: user mode only, write DMA, the interrupt, a second chip      *)
(* select of the SPI, a calibration of one chip and of two, and one done   *)
(* before.                                                                 *)
MCConfigs ==
  {[Plain EXCEPT !.dma = FALSE, !.timing_calibration_disabled = FALSE,
                 !.frequency = 40],
   [Plain EXCEPT !.max_cs = 1, !.pure_spi_mode_only = TRUE,
                 !.timing_calibration_disabled = FALSE, !.frequency = 100],
   [Plain EXCEPT !.max_cs = 1, !.irq = TRUE],
   [Plain EXCEPT !.ctrl = "Spi", !.max_cs = 1, !.capacity = 256,
                 !.irq = TRUE, !.timing_calibration_disabled = FALSE,
                 !.calibrated = TRUE],
   [Plain EXCEPT !.ctrl = "Spi", !.dma_write = TRUE],
   [Plain EXCEPT !.ctrl = "Spi", !.master_idx = 2, !.capacity = 256,
                 !.pure_spi_mode_only = TRUE,
                 !.timing_calibration_disabled = FALSE]}
MCDevices ==
  {[cs |-> 0, spim |-> -1], [cs |-> 1, spim |-> -1], [cs |-> 0, spim |-> 2],
   [cs |-> 0, spim |-> 3]}
(* 1 MB, and all that a second window of 2 MB leaves.                      *)
MCFlashSizes == {4, 1016}
=============================================================================
